---- MODULE Spec2Model ----
(***************************************************************************)
(* TETSUO wallet SDK: the address codec (address.ts), the hash and base58  *)
(* primitives (crypto.ts), key derivation (wallet.ts) and the transaction  *)
(* builder, codec and signer (transaction.ts), as a state machine whose    *)
(* actions are calls of the exported functions.                            *)
(*                                                                         *)
(* Representation.  A JavaScript string is a sequence of one-character     *)
(* strings, a Buffer is a sequence of bytes 0..255, a BigInt is a          *)
(* big-endian sequence of base-256 digits without leading zeros.  A call   *)
(* that can throw returns Ok(v) or Throw(e).  SHA-256, RIPEMD-160, HMAC    *)
(* and the secp256k1 library are outside the repository: they are          *)
(* deterministic stand-ins of the right output length.                     *)
(***************************************************************************)
EXTENDS Integers, Sequences, FiniteSets, TLC

VARIABLES
    call,       \* the last call made: [op |-> ..., ...arguments]
    ret,        \* its outcome: Ok(value) or Throw(error)
    wallet,     \* the caller's wallet object: [privateKey, publicKey, address]
    utxos,      \* the caller's UTXO array, handed to buildTransaction / signTransaction
    args,       \* the arguments the caller builds its transaction with
    txData,     \* the outcome of the caller's first buildTransaction call
    txHex,      \* the outcome of createTransactionHex for txData
    signedTxHex, \* the outcome of signTransaction for txHex
    ncalls,     \* buildTransaction calls made so far
    heap,       \* the UTXO arrays that callers running side by side hold
    tasks,      \* those callers: each one's arguments, position and locals
    sessionPassword, \* the session password of the command line program
    cli         \* the command line program: the wallet file, its position

vars == <<call, ret, wallet, utxos, args, txData, txHex, signedTxHex, ncalls,
          heap, tasks, sessionPassword, cli>>

(***************************************************************************)
(* JavaScript values and outcomes                                          *)
(***************************************************************************)
JsNull == [t |-> "null"]
Undefined == [t |-> "undefined"]
Str(s) == [t |-> "string", v |-> s]

Ok(v) == [ok |-> TRUE, val |-> v]
Throw(e) == [ok |-> FALSE, err |-> e]

\* new Error(...) and its subclasses, by name
Error(name) == [name |-> name]

Max(a, b) == IF a >= b THEN a ELSE b

Rep(x, n) == [i \in 1..n |-> x]

Reverse(s) == [i \in 1..Len(s) |-> s[Len(s) + 1 - i]]

\* the number of leading elements of s equal to x
RECURSIVE LeadingFrom(_, _, _)
LeadingFrom(s, x, i) == IF i <= Len(s) /\ s[i] = x THEN LeadingFrom(s, x, i + 1) ELSE i - 1

LeadingCount(s, x) == LeadingFrom(s, x, 1)

\* Array.prototype.slice / Buffer.prototype.slice / String.prototype.slice:
\* 0-based, end exclusive, negative indices count from the end.
JsSlice(s, start, end) ==
    LET n == Len(s)
        a == IF start < 0 THEN Max(n + start, 0) ELSE IF start <= n THEN start ELSE n
        b == IF end < 0 THEN Max(n + end, 0) ELSE IF end <= n THEN end ELSE n
    IN  IF a >= b THEN <<>> ELSE SubSeq(s, a + 1, b)

JsSliceFrom(s, start) == JsSlice(s, start, Len(s))

(***************************************************************************)
(* BigInt arithmetic on big-endian base-256 digit sequences                *)
(***************************************************************************)
Norm(d) == IF d # <<>> /\ d[1] = 0 THEN SubSeq(d, LeadingCount(d, 0) + 1, Len(d)) ELSE d

\* Loops over a buffer are evaluated by halving the range, the left half
\* first, so that long buffers do not nest deeply.

\* digits lo..hi of le (least significant first) times m plus carry c:
\* the resulting digits, followed by the carry out
RECURSIVE MulAddRange(_, _, _, _, _)
MulAddRange(le, lo, hi, m, c) ==
    IF lo > hi THEN <<c>>
    ELSE IF lo = hi THEN <<(le[lo] * m + c) % 256, (le[lo] * m + c) \div 256>>
    ELSE LET left == MulAddRange(le, lo, (lo + hi) \div 2, m, c)
         IN  SubSeq(left, 1, Len(left) - 1)
                 \o MulAddRange(le, ((lo + hi) \div 2) + 1, hi, m, left[Len(left)])

\* num * m + c, for 0 <= c < 256 and m <= 256
BigMulAdd(num, m, c) == Norm(Reverse(MulAddRange(Reverse(num), 1, Len(num), m, c)))

\* long division of digits lo..hi of num by m with carry in: the quotient's
\* digits, followed by the remainder
RECURSIVE DivRange(_, _, _, _, _)
DivRange(num, lo, hi, m, carry) ==
    IF lo > hi THEN <<carry>>
    ELSE IF lo = hi THEN <<(carry * 256 + num[lo]) \div m, (carry * 256 + num[lo]) % m>>
    ELSE LET left == DivRange(num, lo, (lo + hi) \div 2, m, carry)
         IN  SubSeq(left, 1, Len(left) - 1)
                 \o DivRange(num, ((lo + hi) \div 2) + 1, hi, m, left[Len(left)])

BigDiv(num, m) == Norm(SubSeq(DivRange(num, 1, Len(num), m, 0), 1, Len(num)))

\* -1, 0, 1 as a < b, a = b, a > b (both normalised)
DigitsCmp(a, b) ==
    IF a = b THEN 0
    ELSE LET i == CHOOSE i \in 1..Len(a) : a[i] # b[i] /\ \A j \in 1..(i - 1) : a[j] = b[j]
         IN  IF a[i] < b[i] THEN -1 ELSE 1

BigCmp(a, b) ==
    IF Len(a) < Len(b) THEN -1 ELSE IF Len(a) > Len(b) THEN 1 ELSE DigitsCmp(a, b)

\* digits lo..hi (least significant first) of a - b with borrow in: the
\* resulting digits, followed by the borrow out
RECURSIVE SubRange(_, _, _, _, _)
SubRange(a, b, lo, hi, borrow) ==
    IF lo > hi THEN <<borrow>>
    ELSE IF lo = hi
    THEN LET t == a[lo] - (IF lo <= Len(b) THEN b[lo] ELSE 0) - borrow
         IN  <<(t + 256) % 256, IF t < 0 THEN 1 ELSE 0>>
    ELSE LET left == SubRange(a, b, lo, (lo + hi) \div 2, borrow)
         IN  SubSeq(left, 1, Len(left) - 1)
                 \o SubRange(a, b, ((lo + hi) \div 2) + 1, hi, left[Len(left)])

\* a - b, for a >= b
BigSub(a, b) ==
    Norm(Reverse(SubSeq(SubRange(Reverse(a), Reverse(b), 1, Len(a), 0), 1, Len(a))))

(***************************************************************************)
(* crypto.ts                                                               *)
(***************************************************************************)
HexDigits == << "0", "1", "2", "3", "4", "5", "6", "7", "8", "9", "a", "b", "c", "d", "e", "f" >>

\* value of a hexadecimal character, -1 for any other character
HexVal(c) ==
    IF \E i \in 1..16 : HexDigits[i] = c THEN (CHOOSE i \in 1..16 : HexDigits[i] = c) - 1
    ELSE CASE c = "A" -> 10 [] c = "B" -> 11 [] c = "C" -> 12
           [] c = "D" -> 13 [] c = "E" -> 14 [] c = "F" -> 15 [] OTHER -> -1

\* Buffer.prototype.toString('hex')
toHex(data) ==
    [i \in 1..(2 * Len(data)) |->
        IF i % 2 = 1 THEN HexDigits[(data[(i + 1) \div 2] \div 16) + 1]
        ELSE HexDigits[(data[i \div 2] % 16) + 1]]

\* Buffer.from(hex, 'hex'): the whole pairs of hexadecimal characters before
\* the first pair that is not one
fromHex(hex) ==
    LET pairs == Len(hex) \div 2
        good(k) == HexVal(hex[2 * k - 1]) # -1 /\ HexVal(hex[2 * k]) # -1
        n == IF \A k \in 1..pairs : good(k) THEN pairs
             ELSE (CHOOSE k \in 1..pairs : ~good(k) /\ \A j \in 1..(k - 1) : good(j)) - 1
    IN  [k \in 1..n |-> HexVal(hex[2 * k - 1]) * 16 + HexVal(hex[2 * k])]

\* Stand-in digest: absorb the bytes, then squeeze n bytes.
RECURSIVE AbsorbRange(_, _, _, _)
AbsorbRange(data, lo, hi, h) ==
    IF lo > hi THEN h
    ELSE IF lo = hi THEN (h * 31 + data[lo] + 1) % 65521
    ELSE LET left == AbsorbRange(data, lo, (lo + hi) \div 2, h)
         IN  IF left = left THEN AbsorbRange(data, ((lo + hi) \div 2) + 1, hi, left) ELSE h

Absorb(data, seed) == AbsorbRange(data, 1, Len(data), seed)

RECURSIVE Squeeze(_, _)
Squeeze(h, n) ==
    IF n = 0 THEN <<>>
    ELSE <<((h * 37 + 11) % 65521) % 256>> \o Squeeze((h * 37 + 11) % 65521, n - 1)

sha256(data) == Squeeze(Absorb(data, 17), 32)

doubleSha256(data) == sha256(sha256(data))

\* one digest in eight is all zero bytes and one in eight all 0xff bytes, so
\* that both ends of the range of digests occur
Digest160(h) ==
    CASE h % 8 = 0 -> Rep(0, 20)
      [] h % 8 = 1 -> Rep(255, 20)
      [] OTHER -> Squeeze(h, 20)

ripemd160(data) == Digest160(Absorb(data, 29))

hash160(data) == ripemd160(sha256(data))

Alphabet ==
    << "1", "2", "3", "4", "5", "6", "7", "8", "9",
       "A", "B", "C", "D", "E", "F", "G", "H", "J", "K", "L", "M", "N",
       "P", "Q", "R", "S", "T", "U", "V", "W", "X", "Y", "Z",
       "a", "b", "c", "d", "e", "f", "g", "h", "i", "j", "k", "m", "n",
       "o", "p", "q", "r", "s", "t", "u", "v", "w", "x", "y", "z" >>

\* alphabet.indexOf(char)
IndexOf(c) ==
    IF \E i \in 1..Len(Alphabet) : Alphabet[i] = c
    THEN (CHOOSE i \in 1..Len(Alphabet) : Alphabet[i] = c) - 1
    ELSE -1

\* for (const byte of buffer) num = num * 256n + BigInt(byte)
RECURSIVE BytesRange(_, _, _, _)
BytesRange(buffer, lo, hi, num) ==
    IF lo > hi THEN num
    ELSE IF lo = hi THEN BigMulAdd(num, 256, buffer[lo])
    ELSE LET left == BytesRange(buffer, lo, (lo + hi) \div 2, num)
         IN  IF left = left THEN BytesRange(buffer, ((lo + hi) \div 2) + 1, hi, left) ELSE num

\* at most k rounds of
\* while (num > 0n) { encoded = alphabet[num % 58n] + encoded; num = num / 58n }
RECURSIVE Base58Rounds(_, _)
Base58Rounds(st, k) ==
    IF k = 0 \/ st.num = <<>> THEN st
    ELSE IF k = 1
    THEN [num |-> BigDiv(st.num, 58),
          encoded |-> <<Alphabet[DivRange(st.num, 1, Len(st.num), 58, 0)[Len(st.num) + 1] + 1]>> \o st.encoded]
    ELSE LET left == Base58Rounds(st, k \div 2)
         IN  IF left = left THEN Base58Rounds(left, k - (k \div 2)) ELSE st

\* return encoded || '1'
OrOne(encoded) == IF encoded = <<>> THEN <<"1">> ELSE encoded

\* the digit loop ends within 2 * Len(buffer) rounds: two base-58 digits hold
\* more than one byte
toBase58(buffer) ==
    OrOne(Rep("1", LeadingCount(buffer, 0))
              \o Base58Rounds([num |-> BytesRange(buffer, 1, Len(buffer), <<>>),
                               encoded |-> <<>>], 2 * Len(buffer)).encoded)

\* for (const char of str) num = num * 58n + BigInt(alphabet.indexOf(char))
RECURSIVE CharsRange(_, _, _, _)
CharsRange(str, lo, hi, num) ==
    IF lo > hi THEN num
    ELSE IF lo = hi THEN BigMulAdd(num, 58, IndexOf(str[lo]))
    ELSE LET left == CharsRange(str, lo, (lo + hi) \div 2, num)
         IN  IF left = left THEN CharsRange(str, ((lo + hi) \div 2) + 1, hi, left) ELSE num

fromBase58(str) ==
    IF \E i \in 1..Len(str) : IndexOf(str[i]) = -1
    THEN Throw(Error("Error"))
    ELSE Ok(Rep(0, LeadingCount(str, "1")) \o CharsRange(str, 1, Len(str), <<>>))

base58check(data) == toBase58(data \o JsSlice(doubleSha256(data), 0, 4))

\* the checksum is not compared
CheckedPayloadUnverified(payload, checksum) == Ok(payload)

\* the payload, once its checksum has been compared with the calculated one
CheckedPayload(payload, checksum) ==
    IF checksum # JsSlice(doubleSha256(payload), 0, 4) THEN Throw(Error("Error"))
    ELSE Ok(payload)

\* the payload and the checksum of the decoded bytes
SplitChecksum(data) ==
    IF ~data.ok THEN data
    ELSE CheckedPayload(JsSlice(data.val, 0, -4), JsSliceFrom(data.val, -4))

base58checkDecode(encoded) == SplitChecksum(fromBase58(encoded))

(***************************************************************************)
(* address.ts                                                              *)
(***************************************************************************)
TETSUO_ADDRESS_PREFIX == 65

generateAddress(publicKeyHex) ==
    LET publicKeyBuffer == fromHex(publicKeyHex)
        publicKeyHash == hash160(publicKeyBuffer)
        addressPayload == <<TETSUO_ADDRESS_PREFIX>> \o publicKeyHash
    IN  Str(base58check(addressPayload))

\* the length of the payload is not checked
CheckDecodedNoLength(decoded) ==
    IF ~decoded.ok THEN decoded
    ELSE IF decoded.val = <<>> \/ decoded.val[1] # TETSUO_ADDRESS_PREFIX THEN Ok(FALSE)
    ELSE Ok(TRUE)

\* the checks on the decoded payload: prefix, then length
CheckDecoded(decoded) ==
    IF ~decoded.ok THEN decoded
    ELSE IF decoded.val = <<>> \/ decoded.val[1] # TETSUO_ADDRESS_PREFIX THEN Ok(FALSE)
    ELSE IF Len(decoded.val) # 21 THEN Ok(FALSE)
    ELSE Ok(TRUE)

\* The body of isValidAddress's try block: Ok(boolean), or the Throw that
\* base58checkDecode raised.
IsValidAddressTry(address) ==
    IF address.t # "string" \/ address.v = <<>> THEN Ok(FALSE)
    ELSE IF Head(address.v) # "T" THEN Ok(FALSE)
    ELSE CheckDecoded(base58checkDecode(address.v))

\* catch { return false; }
CatchFalse(r) == IF r.ok THEN r ELSE Ok(FALSE)

isValidAddress(address) == CatchFalse(IsValidAddressTry(address))

validateAddress(address) ==
    IF ~isValidAddress(address).val THEN Throw(Error("InvalidAddressError")) ELSE Ok(address)

\* the prefix byte is not removed
KeepPrefix(decoded) == IF ~decoded.ok THEN decoded ELSE Ok(decoded.val)

\* decoded.slice(1)
RemovePrefix(decoded) == IF ~decoded.ok THEN decoded ELSE Ok(JsSliceFrom(decoded.val, 1))

\* the address is decoded without being validated
addressToHash160Unchecked(address) == RemovePrefix(base58checkDecode(address.v))

addressToHash160(address) ==
    IF ~isValidAddress(address).val THEN Throw(Error("InvalidAddressError"))
    ELSE RemovePrefix(base58checkDecode(address.v))

(***************************************************************************)
(* wallet.ts                                                               *)
(***************************************************************************)
\* the order n of the secp256k1 group
curveOrder ==
    << 255, 255, 255, 255, 255, 255, 255, 255, 255, 255, 255, 255, 255, 255, 255, 254,
       186, 174, 220, 230, 175, 72, 160, 59, 191, 210, 94, 140, 208, 54, 65, 65 >>

\* this.priv.umod(n), for a scalar below 2n
ReduceModN(k) == IF BigCmp(k, curveOrder) >= 0 THEN BigSub(k, curveOrder) ELSE k

\* ec.keyFromPrivate(hex, 'hex'): the scalar, reduced modulo n (keys of at
\* most 32 bytes are below 2n)
keyFromPrivate(privateKeyHex) == ReduceModN(Norm(fromHex(privateKeyHex)))

\* stand-in for the coordinates of the point k*G
PointX(k) == Squeeze(Absorb(k, 59), 32)

PointY(k) == Squeeze(Absorb(k, 43), 32)

\* key.getPublic(true, 'hex') and key.getPublic('hex'): the point in
\* compressed or uncompressed form; encoding the point at infinity (k = 0)
\* throws
getPublic(k, compact) ==
    IF k = <<>> THEN Throw(Error("TypeError"))
    ELSE IF compact THEN Ok(toHex(<<2 + (PointY(k)[32] % 2)>> \o PointX(k)))
    ELSE Ok(toHex(<<4>> \o PointX(k) \o PointY(k)))

\* catch (error) { throw new WalletError(...) }
CatchWalletError(r) == IF r.ok THEN r ELSE Throw(Error("WalletError"))

derivePublicKey(privateKeyHex) ==
    CatchWalletError(getPublic(keyFromPrivate(privateKeyHex), TRUE))

\* the compression byte from the last byte, then the 32 bytes
CompressLegacy(publicKeyBuffer) ==
    toHex(<<IF publicKeyBuffer[Len(publicKeyBuffer)] % 2 = 0 THEN 2 ELSE 3>>
              \o JsSlice(publicKeyBuffer, 0, 32))

\* createHmac('sha256', 'secp256k1').update(privateKeyBuffer).digest() is a
\* stand-in
derivePublicKeyLegacy(privateKeyHex) ==
    CompressLegacy(Squeeze(Absorb(fromHex(privateKeyHex), 53), 32))

(***************************************************************************)
(* transaction.ts: buildTransaction                                        *)
(***************************************************************************)
COIN_VALUE == 100000000
\* 0xffffffff, as base-256 digits
SEQUENCE_FINAL == <<255, 255, 255, 255>>
MIN_FEE == 25000
FEE_PER_BYTE == 100

\* A JavaScript number that is not an integer is an exact fraction n / d.
RECURSIVE GCD(_, _)
GCD(a, b) == IF b = 0 THEN a ELSE GCD(b, a % b)

\* q * k for a fraction q and an integer k > 0
Times(q, k) == [n |-> q.n * (k \div GCD(q.d, k)), d |-> q.d \div GCD(q.d, k)]

\* Math.floor of a fraction with positive denominator
Floor(q) == q.n \div q.d

\* Math.ceil(size / 1000)
CeilDiv1000(size) == -((-size) \div 1000)

estimateTransactionSize(inputCount, outputCount) == inputCount * 148 + outputCount * 34 + 10

estimateFee(inputCount, outputCount) ==
    Max(MIN_FEE, CeilDiv1000(estimateTransactionSize(inputCount, outputCount)) * FEE_PER_BYTE)

\* Array.prototype.sort((a, b) => a.confirmations - b.confirmations): stable,
\* by insertion
RECURSIVE InsertByConfirmations(_, _)
InsertByConfirmations(sorted, u) ==
    IF sorted = <<>> THEN <<u>>
    ELSE IF sorted[Len(sorted)].confirmations - u.confirmations > 0
    THEN InsertByConfirmations(SubSeq(sorted, 1, Len(sorted) - 1), u) \o <<sorted[Len(sorted)]>>
    ELSE sorted \o <<u>>

\* the array is taken in the caller's order
CallerOrder(arr) == arr

RECURSIVE SortByConfirmations(_)
SortByConfirmations(arr) ==
    IF arr = <<>> THEN <<>>
    ELSE InsertByConfirmations(SortByConfirmations(SubSeq(arr, 1, Len(arr) - 1)), arr[Len(arr)])

\* the caller's array is sorted in place
UtxosSortedInPlace(utxosArg) == SortByConfirmations(utxosArg)

\* const sortedUTXOs = [...utxos].sort(...): the sort works on a copy, the
\* caller's array is left as it was
UtxosAfterSort(utxosArg) == utxosArg

\* the sum of the values of records
RECURSIVE SumValues(_)
SumValues(records) ==
    IF records = <<>> THEN 0 ELSE Head(records).value + SumValues(Tail(records))

\* totalInput is not reset: it starts from the total of the caller's first
\* successful call
StaleSelection ==
    [selectedUTXOs |-> <<>>,
     totalInput |-> IF txData # JsNull /\ txData.ok
                    THEN SumValues(txData.val.outputs) + txData.val.fee ELSE 0]

\* let selectedUTXOs = []; let totalInput = 0
NewSelection == [selectedUTXOs |-> <<>>, totalInput |-> 0]

\* the selection loop, from the i-th sorted UTXO on
RECURSIVE SelectFrom(_, _, _, _)
SelectFrom(sortedUTXOs, i, sel, amountSatoshis) ==
    IF i > Len(sortedUTXOs) THEN sel
    ELSE LET selectedUTXOs == Append(sel.selectedUTXOs, sortedUTXOs[i])
             totalInput == sel.totalInput + sortedUTXOs[i].value
             estimatedSize == Len(selectedUTXOs) * 148 + 2 * 34 + 10
             estimatedFee == Max(MIN_FEE, CeilDiv1000(estimatedSize) * FEE_PER_BYTE)
             next == [selectedUTXOs |-> selectedUTXOs, totalInput |-> totalInput]
         IN  IF totalInput >= amountSatoshis + estimatedFee THEN next
             ELSE SelectFrom(sortedUTXOs, i + 1, next, amountSatoshis)

\* the size is rounded down to whole kilobytes
FinalFeeFloor(selectedCount) ==
    Max(MIN_FEE, ((selectedCount * 148 + 2 * 34 + 10) \div 1000) * FEE_PER_BYTE)

\* the final fee, from the number of selected UTXOs
FinalFee(selectedCount) ==
    LET inputSize == selectedCount * 148
        outputSize == 2 * 34
        overhead == 10
        txSize == inputSize + outputSize + overhead
    IN  Max(MIN_FEE, CeilDiv1000(txSize) * FEE_PER_BYTE)

\* the two totals change places
InsufficientFundsErrorSwapped(required, available) ==
    [name |-> "InsufficientFundsError", required |-> available, available |-> required]

InsufficientFundsError(required, available) ==
    [name |-> "InsufficientFundsError", required |-> required, available |-> available]

\* the change is left to the fee
NoChange(changeAddress, change) == <<>>

\* a change of zero gets an output as well
ChangeOutputsZero(changeAddress, change) ==
    IF change >= 0 THEN <<[address |-> changeAddress, value |-> change]>> ELSE <<>>

\* the change output, or none
ChangeOutputs(changeAddress, change) ==
    IF change > 0 THEN <<[address |-> changeAddress, value |-> change]>> ELSE <<>>

\* the part of buildTransaction after the selection loop
BuildSelected(sel, fee, toAddress, amountSatoshis, changeAddress) ==
    IF sel.totalInput < amountSatoshis + fee
    THEN Throw(InsufficientFundsError(amountSatoshis + fee, sel.totalInput))
    ELSE Ok([inputs |-> [i \in 1..Len(sel.selectedUTXOs) |->
                            [txid |-> sel.selectedUTXOs[i].txid,
                             vout |-> sel.selectedUTXOs[i].vout,
                             sequence |-> SEQUENCE_FINAL]],
             outputs |-> <<[address |-> toAddress, value |-> amountSatoshis]>>
                            \o ChangeOutputs(changeAddress,
                                             sel.totalInput - amountSatoshis - fee),
             fee |-> fee])

\* the part of buildTransaction after the three validations
BuildValidated(toAddress, amountSatoshis, sel, changeAddress) ==
    BuildSelected(sel, FinalFee(Len(sel.selectedUTXOs)), toAddress, amountSatoshis,
                  changeAddress)

\* the first of the three validations that throws, if any
FirstThrow(validFrom, validTo, validChange, rest) ==
    IF ~validFrom.ok THEN validFrom
    ELSE IF ~validTo.ok THEN validTo
    ELSE IF ~validChange.ok THEN validChange
    ELSE rest

buildTransaction(fromAddress, toAddress, amount, utxosArg, changeAddress) ==
    FirstThrow(validateAddress(fromAddress), validateAddress(toAddress),
               validateAddress(changeAddress),
               BuildValidated(toAddress, Floor(Times(amount, COIN_VALUE)),
                              SelectFrom(SortByConfirmations(utxosArg), 1, NewSelection,
                                         Floor(Times(amount, COIN_VALUE))),
                              changeAddress))

(***************************************************************************)
(* transaction.ts: serialisation                                           *)
(***************************************************************************)
Arr(a) == [t |-> "array", v |-> a]

\* the truthiness of an optional string
Truthy(a) == a.t = "string" /\ a.v # <<>>

\* '01000000': the version, and SIGHASH_ALL as four little-endian bytes
VERSION_HEX == <<"0", "1", "0", "0", "0", "0", "0", "0">>

\* Number.prototype.toString(16)
RECURSIVE NatToString16(_)
NatToString16(n) ==
    IF n < 16 THEN <<HexDigits[n + 1]>>
    ELSE NatToString16(n \div 16) \o <<HexDigits[(n % 16) + 1]>>

NumberToString16(n) == IF n < 0 THEN <<"-">> \o NatToString16(-n) ELSE NatToString16(n)

\* toString(16) of a number kept as base-256 digits
BigToString16(d) ==
    LET h == toHex(Norm(d))
    IN  IF Norm(d) = <<>> THEN <<"0">> ELSE SubSeq(h, LeadingCount(h, "0") + 1, Len(h))

padStart(str, targetLength, padString) ==
    IF Len(str) >= targetLength THEN str ELSE Rep(padString, targetLength - Len(str)) \o str

\* the number of a model is below 2^31, so the 'ff' form is never needed
encodeVarInt(num) ==
    IF num < 253 THEN padStart(NumberToString16(num), 2, "0")
    ELSE IF num <= 65535 THEN <<"f", "d">> \o padStart(NumberToString16(num), 4, "0")
    ELSE <<"f", "e">> \o padStart(NumberToString16(num), 8, "0")

createPayToPubKeyHashScript(hash) ==
    <<"7", "6">> \o <<"a", "9">> \o <<"1", "4">> \o toHex(hash) \o <<"8", "8">> \o <<"a", "c">>

\* the pairs hex.substr(i, 2) for i = 0, 2, ..., reversed and joined; the last
\* pair of a string of odd length is a single character
ReversePairs(hex) ==
    LET n == Len(hex)
        odd == n % 2
    IN  [k \in 1..n |->
            IF odd = 1 /\ k = 1 THEN hex[n]
            ELSE hex[2 * (((n - odd) \div 2) - 1 - ((k - odd - 1) \div 2)) + ((k - odd - 1) % 2) + 1]]

\* the txid in the order of the argument
TxidAsGiven(txid) == txid

reverseTxid(txid) == ReversePairs(txid)

reverseBytesInPairs(hex) == ReversePairs(hex)

\* txid, vout, the given script field and the sequence of one input;
\* input.sequence is kept as base-256 digits
SerializeInput(input, scriptField) ==
    reverseTxid(input.txid)
        \o reverseBytesInPairs(padStart(NumberToString16(input.vout), 8, "0"))
        \o scriptField
        \o reverseBytesInPairs(padStart(BigToString16(input.sequence), 8, "0"))

\* the loop over the inputs, from the j-th on, with one script field each
\* (the inputs lo..hi, by halves)
RECURSIVE SerializeRange(_, _, _, _)
SerializeRange(inputs, scriptFields, lo, hi) ==
    IF lo > hi THEN <<>>
    ELSE IF lo = hi THEN SerializeInput(inputs[lo], scriptFields[lo])
    ELSE SerializeRange(inputs, scriptFields, lo, (lo + hi) \div 2)
             \o SerializeRange(inputs, scriptFields, ((lo + hi) \div 2) + 1, hi)

SerializeInputs(inputs, scriptFields, j) == SerializeRange(inputs, scriptFields, j, Len(inputs))

\* a script with its length in front
WithLength(script) == encodeVarInt(Len(script) \div 2) \o script

\* one output in front of the ones after it; the first address that is not
\* valid makes addressToHash160 throw
PrependOutput(output, hash, rest) ==
    IF ~hash.ok THEN hash
    ELSE IF ~rest.ok THEN rest
    ELSE Ok(reverseBytesInPairs(padStart(NumberToString16(output.value), 16, "0"))
                \o WithLength(createPayToPubKeyHashScript(hash.val)) \o rest.val)

\* the loop over the outputs, from the i-th on
RECURSIVE SerializeOutputs(_, _)
SerializeOutputs(outputs, i) ==
    IF i > Len(outputs) THEN Ok(<<>>)
    ELSE PrependOutput(outputs[i], addressToHash160(outputs[i].address),
                       SerializeOutputs(outputs, i + 1))

\* the script field of input i (counted from 1): scriptPubKeys is Undefined
\* or an array of optional strings
ScriptField(scriptPubKeys, i) ==
    IF scriptPubKeys.t = "array" /\ i <= Len(scriptPubKeys.v) /\ Truthy(scriptPubKeys.v[i])
    THEN WithLength(scriptPubKeys.v[i].v) ELSE <<"0", "0">>

\* version, inputs, outputs, locktime
Assemble(inputs, scriptFields, outputCount, outs) ==
    IF ~outs.ok THEN outs
    ELSE Ok(VERSION_HEX \o encodeVarInt(Len(inputs))
                \o SerializeInputs(inputs, scriptFields, 1)
                \o encodeVarInt(outputCount) \o outs.val \o Rep("0", 8))

createTransactionHex(inputs, outputs, scriptPubKeys) ==
    Assemble(inputs, [i \in 1..Len(inputs) |-> ScriptField(scriptPubKeys, i)],
             Len(outputs), SerializeOutputs(outputs, 1))

(***************************************************************************)
(* transaction.ts: signing                                                 *)
(***************************************************************************)
\* the result of parseInt that is not a number
NaN == -1

\* parseInt(str, 16) of a string without a sign: the value of the leading
\* hexadecimal characters, NaN when there is none
RECURSIVE ParseFrom(_, _, _)
ParseFrom(str, i, acc) ==
    IF i > Len(str) \/ HexVal(str[i]) = -1 THEN acc
    ELSE ParseFrom(str, i + 1, acc * 16 + HexVal(str[i]))

ParseInt16(str) == IF str = <<>> \/ HexVal(str[1]) = -1 THEN NaN ELSE ParseFrom(str, 1, 0)

CharCode(c) ==
    IF c = "-" THEN 45
    ELSE IF HexVal(c) = -1 THEN 0
    ELSE IF HexVal(c) < 10 THEN 48 + HexVal(c)
    ELSE IF c \in {"A", "B", "C", "D", "E", "F"} THEN 55 + HexVal(c)
    ELSE 87 + HexVal(c)

\* a < b on strings
StringLess(a, b) ==
    \E i \in 1..Len(b) :
        /\ \A j \in 1..(i - 1) : j <= Len(a) /\ a[j] = b[j]
        /\ (i > Len(a) \/ CharCode(a[i]) < CharCode(b[i]))

\* transactionHex.slice(pos, pos + n), of nothing once pos is NaN
SliceAt(transactionHex, pos, n) ==
    IF pos = NaN THEN <<>> ELSE JsSlice(transactionHex, pos, pos + n)

\* a length field of one byte whatever the length
OneByteWidth(scriptLenHex, short) == 2

\* the width of the length field: 2 characters below 0xfd, else 6, 10 or 18
LengthWidth(scriptLenHex, short) ==
    IF short # NaN /\ short < 253 THEN 2
    ELSE IF scriptLenHex = <<"f", "d">> THEN 6
    ELSE IF scriptLenHex = <<"f", "e">> THEN 10
    ELSE 18

\* pos after a script of scriptLen bytes behind a length field of that width
AfterLength(pos, width, scriptLen) ==
    IF pos = NaN \/ scriptLen = NaN THEN NaN ELSE pos + width + scriptLen * 2

ScriptLength(transactionHex, pos, width, short) ==
    AfterLength(pos, width,
                IF width = 2 THEN short
                ELSE ParseInt16(JsSlice(transactionHex, pos + 2, pos + width)))

\* pos after the script of an input whose length field starts at pos
AfterLengthField(transactionHex, pos, scriptLenHex, short) ==
    ScriptLength(transactionHex, pos, LengthWidth(scriptLenHex, short), short)

AfterScriptAt(transactionHex, pos, scriptLenHex) ==
    AfterLengthField(transactionHex, pos, scriptLenHex, ParseInt16(scriptLenHex))

AfterScript(transactionHex, pos) ==
    AfterScriptAt(transactionHex, pos, SliceAt(transactionHex, pos, 2))

\* pos after the sequence of an input whose script ends at after
AfterSequence(after) == IF after = NaN THEN NaN ELSE after + 8

\* the loop over the inputs, from the i-th on (i counted from 0)
\* (count rounds of the loop from pos, by halves)
RECURSIVE SkipRange(_, _, _)
SkipRange(transactionHex, pos, count) ==
    IF pos = NaN THEN NaN
    ELSE IF count <= 0 THEN pos
    ELSE IF count = 1
    THEN AfterSequence(AfterScript(transactionHex, pos + 64 + 8))
    ELSE SkipRange(transactionHex, SkipRange(transactionHex, pos, count \div 2),
                   count - (count \div 2))

SkipInputs(transactionHex, pos, i, inputCount) ==
    SkipRange(transactionHex, pos, inputCount - i)

\* pos after the version and the input count
AfterCount(count) ==
    IF StringLess(count, <<"f", "d">>) THEN 8 + 2
    ELSE IF count = <<"f", "d">> THEN 8 + 6
    ELSE IF count = <<"f", "e">> THEN 8 + 10
    ELSE 8 + 18

findOutputsPositionInHex(transactionHex, inputCount) ==
    SkipInputs(transactionHex, AfterCount(JsSlice(transactionHex, 8, 10)), 0, inputCount)

\* transactionHex.slice(outputPos): slice(NaN) is the whole string
SliceFromPos(transactionHex, outputPos) ==
    IF outputPos = NaN THEN transactionHex ELSE JsSliceFrom(transactionHex, outputPos)

\* the whole unsigned transaction is appended
WholeTransaction(transactionHex, inputCount) == transactionHex

OutputsAndLocktime(transactionHex, inputCount) ==
    SliceFromPos(transactionHex, findOutputsPositionInHex(transactionHex, inputCount))

toUpperCase(str) ==
    [i \in 1..Len(str) |->
        CASE str[i] = "a" -> "A" [] str[i] = "b" -> "B" [] str[i] = "c" -> "C"
          [] str[i] = "d" -> "D" [] str[i] = "e" -> "E" [] str[i] = "f" -> "F"
          [] OTHER -> str[i]]

\* no byte in front of the number
Unpadded(hex, first) == hex

\* a leading '00' when the first byte is above 0x7f
PadSign(hex, first) == IF first # NaN /\ first > 127 THEN <<"0", "0">> \o hex ELSE hex

\* a leading '0' for an odd length
PadEven(hex) == IF Len(hex) % 2 = 1 THEN <<"0">> \o hex ELSE hex

SignPadded(hex) == PadSign(hex, ParseInt16(JsSlice(hex, 0, 2)))

\* hex.replace(/^0+/, ''), then the two paddings
DerInteger(hex) == SignPadded(PadEven(SubSeq(hex, LeadingCount(hex, "0") + 1, Len(hex))))

\* s is encoded as it came
KeepS(sHex, sValue) == sHex

\* the canonical s: n - s, in upper case, when s is above n / 2
LowS(sHex, sValue) ==
    IF BigCmp(sValue, BigDiv(curveOrder, 2)) > 0
    THEN padStart(toUpperCase(BigToString16(BigSub(curveOrder, sValue))), 64, "0")
    ELSE sHex

\* the length of an integer in bytes, as two characters

\* '30' + contentLength + '02' + rLen + rHex + '02' + sLen + sHex
DerSequence(rHex, sHex, rLen, sLen) ==
    <<"3", "0">>
        \o padStart(NumberToString16(
                        (2 + Len(rLen) + Len(rHex) + 2 + Len(sLen) + Len(sHex)) \div 2), 2, "0")
        \o <<"0", "2">> \o rLen \o rHex
        \o <<"0", "2">> \o sLen \o sHex

DerIntegers(rHex, sHex) ==
    DerSequence(rHex, sHex, padStart(NumberToString16(Len(rHex) \div 2), 2, "0"),
                padStart(NumberToString16(Len(sHex) \div 2), 2, "0"))

encodeDERSignature(rHexArg, sHexArg) ==
    DerIntegers(DerInteger(rHexArg), DerInteger(LowS(sHexArg, Norm(fromHex(sHexArg)))))

\* a scalar below 2n brought into 1..n-1
InRange(x) == IF x = <<>> THEN <<1>> ELSE x

\* stand-in for one scalar of a signature: a number in 1..n-1 that the key
\* and the hash determine
SignatureScalar(k, hash, seed) ==
    InRange(ReduceModN(Norm(Squeeze(Absorb(k \o hash, seed), 32))))

\* key.sign(hash): stand-in for the deterministic ECDSA signature
sign(k, hash) == [r |-> SignatureScalar(k, hash, 61), s |-> SignatureScalar(k, hash, 67)]

\* the signature in DER form with the SIGHASH_ALL byte
DerSig(signature) ==
    encodeDERSignature(padStart(BigToString16(signature.r), 64, "0"),
                       padStart(BigToString16(signature.s), 64, "0")) \o <<"0", "1">>

\* <sig> <pubkey>, for the hash that is signed
ScriptSig(privateKey, hash, pubKeyCompressed) ==
    WithLength(DerSig(sign(keyFromPrivate(privateKey), hash))) \o WithLength(pubKeyCompressed)

\* utxos && utxos[i] && utxos[i].scriptPubKey, i counted from 0: the script,
\* or Undefined when the condition is false
ScriptPubKeyAt(utxosArg, i) ==
    IF utxosArg.t = "array" /\ i < Len(utxosArg.v) /\ Truthy(utxosArg.v[i + 1].scriptPubKey)
    THEN utxosArg.v[i + 1].scriptPubKey
    ELSE Undefined

StartsWith(str, prefix) == Len(str) >= Len(prefix) /\ SubSeq(str, 1, Len(prefix)) = prefix

\* the choice between the two keys, by the hash in the script
ChooseKey(hashFromScript, pubKeyCompressed, pubKeyLegacy) ==
    IF toHex(hash160(fromHex(pubKeyCompressed))) = hashFromScript THEN pubKeyCompressed
    ELSE IF toHex(hash160(fromHex(pubKeyLegacy))) = hashFromScript THEN pubKeyLegacy
    ELSE pubKeyCompressed

\* the detection, for the script of utxos[0] (Undefined when there is none)
DetectFrom(first, privateKey, pubKeyCompressed) ==
    IF ~Truthy(first) THEN pubKeyCompressed
    ELSE IF ~(StartsWith(first.v, <<"7", "6", "a", "9", "1", "4">>) /\ Len(first.v) = 50)
    THEN pubKeyCompressed
    ELSE ChooseKey(JsSlice(first.v, 6, 46), pubKeyCompressed,
                   derivePublicKeyLegacy(privateKey))

\* the public key that goes into every scriptSig: the secp256k1 key, or the
\* legacy key when its hash is the one in the script of utxos[0]; when neither
\* hash is, the secp256k1 key is kept
DetectPublicKey(privateKey, pubKeyCompressed, utxosArg) ==
    DetectFrom(ScriptPubKeyAt(utxosArg, 0), privateKey, pubKeyCompressed)

\* the preimage of input i (counted from 1): its script in place, the other
\* scripts empty, the outputs of the unsigned transaction, SIGHASH_ALL
Preimage(transactionHex, inputs, i, scriptPubKey) ==
    VERSION_HEX \o encodeVarInt(Len(inputs))
        \o SerializeInputs(inputs,
               [j \in 1..Len(inputs) |->
                   IF j = i THEN WithLength(scriptPubKey) ELSE <<"0", "0">>], 1)
        \o OutputsAndLocktime(transactionHex, Len(inputs))
        \o VERSION_HEX

\* the signed transaction, from the scriptSigs
Rebuild(transactionHex, inputs, scriptSigs) ==
    VERSION_HEX \o encodeVarInt(Len(inputs))
        \o SerializeInputs(inputs, [i \in 1..Len(inputs) |-> WithLength(scriptSigs[i])], 1)
        \o OutputsAndLocktime(transactionHex, Len(inputs))

\* the loop over the inputs: it throws at the first input without a script
SignInputs(transactionHex, privateKey, inputs, utxosArg, pubKeyCompressed) ==
    IF \E i \in 1..Len(inputs) : ~Truthy(ScriptPubKeyAt(utxosArg, i - 1))
    THEN Throw(Error("Error"))
    ELSE Ok(Rebuild(transactionHex, inputs,
                    [i \in 1..Len(inputs) |->
                        ScriptSig(privateKey,
                                  doubleSha256(fromHex(
                                      Preimage(transactionHex, inputs, i,
                                               ScriptPubKeyAt(utxosArg, i - 1).v))),
                                  pubKeyCompressed)]))

SignDerived(transactionHex, privateKey, inputs, utxosArg, derived) ==
    IF ~derived.ok THEN derived
    ELSE SignInputs(transactionHex, privateKey, inputs, utxosArg,
                    DetectPublicKey(privateKey, derived.val, utxosArg))

\* the try block of signTransaction
SignTry(transactionHex, privateKey, inputs, utxosArg) ==
    SignDerived(transactionHex, privateKey, inputs, utxosArg, derivePublicKey(privateKey))

\* '02' or '03' by the last byte, then the first 64 characters
FallbackKey(pubKeyUncompressed) ==
    (IF ParseInt16(JsSliceFrom(pubKeyUncompressed, -2)) % 2 = 0
     THEN <<"0", "2">> ELSE <<"0", "3">>) \o JsSlice(pubKeyUncompressed, 0, 64)

\* the script of the first input replaced: pos = 8 + 2 + 64 + 8
ReplaceFirstScript(transactionHex, scriptSig) ==
    JsSlice(transactionHex, 0, 8 + 2 + 64 + 8) \o WithLength(scriptSig)
        \o JsSliceFrom(transactionHex, 8 + 2 + 64 + 8 + 2)

SignFirst(transactionHex, privateKey, pub) ==
    IF ~pub.ok THEN pub
    ELSE Ok(ReplaceFirstScript(transactionHex,
                               ScriptSig(privateKey, doubleSha256(fromHex(transactionHex)),
                                         FallbackKey(pub.val))))

\* the try block of the catch clause: the first input gets a signature over
\* the hash of the whole unsigned transaction
SignFallback(transactionHex, privateKey) ==
    SignFirst(transactionHex, privateKey, getPublic(keyFromPrivate(privateKey), FALSE))

\* catch (error2) { return transactionHex }
CatchUnsigned(fallback, transactionHex) ==
    IF fallback.ok THEN fallback ELSE Ok(transactionHex)

\* catch (error) { the fallback }
CatchFallback(attempt, transactionHex, privateKey) ==
    IF attempt.ok THEN attempt
    ELSE CatchUnsigned(SignFallback(transactionHex, privateKey), transactionHex)

signTransaction(transactionHex, privateKey, inputs, utxosArg) ==
    CatchFallback(SignTry(transactionHex, privateKey, inputs, utxosArg), transactionHex,
                  privateKey)

(***************************************************************************)
(* Inputs of the address codec                                             *)
(***************************************************************************)
\* private keys: 32 bytes, all equal to b
KeyHex(b) == toHex(Rep(b, 32))

NumKeys == 2
PrivateKeys == {KeyHex(b) : b \in 1..NumKeys}

\* the public key of tests/address.test.ts, and the ones after it
TestPublicKey(b) == toHex(<<2>> \o Rep(0, 31) \o <<b>>)

NumTestKeys == 6

PublicKeys ==
    {TestPublicKey(b) : b \in 1..NumTestKeys}
        \cup {derivePublicKey(k).val : k \in PrivateKeys}
        \cup {derivePublicKeyLegacy(k) : k \in PrivateKeys}

\* s with the character at position p (1-based) replaced by c
ReplaceAt(s, p, c) == [i \in 1..Len(s) |-> IF i = p THEN c ELSE s[i]]

MutPositions == 2

\* strings near a valid address: one character replaced, the last one
\* dropped, one appended
Mutations(a) ==
    {Str(ReplaceAt(a.v, p, c)) : p \in (1..MutPositions) \cup {Len(a.v)}, c \in {"1", "S", "U", "0", "l"}}
        \cup {Str(JsSlice(a.v, 0, -1)), Str(a.v \o <<"1">>), Str(<<"1">> \o a.v)}

\* what is no address: the literals of tests/address.test.ts, strings too
\* short for a checksum, and payloads that are no address payload encoded with
\* a correct checksum (a wrong version byte, wrong lengths, the empty payload)
OddAddresses ==
    { JsNull,
      Str(<<>>),
      Str(<<"i", "n", "v", "a", "l", "i", "d">>),
      Str(<<"1", "A", "B", "C">>),
      Str(<<"T", "I", "n", "v", "a", "l", "i", "d", "C", "h", "e", "c", "k", "s", "u", "m">>),
      Str(<<"T">>),
      Str(<<"T", "T", "T">>),
      Str(<<"T", " ">>) }
        \cup {Str(base58check(p)) :
                 p \in { <<66>> \o Rep(7, 20),
                         <<64>> \o Rep(255, 20),
                         <<0>> \o Rep(7, 20),
                         <<TETSUO_ADDRESS_PREFIX>> \o Rep(7, 19),
                         <<TETSUO_ADDRESS_PREFIX>> \o Rep(7, 21),
                         <<TETSUO_ADDRESS_PREFIX>> \o Rep(0, 113),
                         <<>> }}

NoWallet == [privateKey |-> JsNull, publicKey |-> JsNull, address |-> JsNull]

\* what the caller passes as an address: foreign strings while it has no
\* wallet, then its own address and the strings near it
AddressInputs ==
    IF wallet = NoWallet THEN OddAddresses
    ELSE {wallet.address} \cup Mutations(wallet.address)

(***************************************************************************)
(* The address codec as a state machine: each action is one call           *)
(***************************************************************************)
InitAddr ==
    /\ call = [op |-> "none"]
    /\ ret = Ok(JsNull)
    /\ wallet = NoWallet
    /\ utxos = <<>>
    /\ args = JsNull
    /\ txData = JsNull
    /\ txHex = JsNull
    /\ signedTxHex = JsNull
    /\ ncalls = 0
    /\ heap = <<>>
    /\ tasks = <<>>
    /\ sessionPassword = JsNull
    /\ cli = [pc |-> "none"]

\* the call has returned (or thrown) to the caller, which goes on
Return ==
    /\ call.op # "none"
    /\ call' = [op |-> "none"]
    /\ ret' = Ok(JsNull)
    /\ UNCHANGED <<wallet, utxos, args, txData, txHex, signedTxHex, ncalls,
                   heap, tasks, sessionPassword, cli>>

GenerateAddress ==
    /\ call.op = "none"
    /\ \E pk \in PublicKeys :
        /\ call' = [op |-> "generateAddress", arg |-> pk]
        /\ ret' = Ok(generateAddress(pk))
        /\ wallet' = [privateKey |-> JsNull, publicKey |-> pk, address |-> generateAddress(pk)]
        /\ UNCHANGED <<utxos, args, txData, txHex, signedTxHex, ncalls,
                       heap, tasks, sessionPassword, cli>>

IsValidAddress ==
    /\ call.op = "none"
    /\ \E a \in AddressInputs :
        /\ call' = [op |-> "isValidAddress", arg |-> a]
        /\ ret' = isValidAddress(a)
        /\ UNCHANGED <<wallet, utxos, args, txData, txHex, signedTxHex, ncalls,
                       heap, tasks, sessionPassword, cli>>

ValidateAddress ==
    /\ call.op = "none"
    /\ \E a \in AddressInputs :
        /\ call' = [op |-> "validateAddress", arg |-> a]
        /\ ret' = validateAddress(a)
        /\ UNCHANGED <<wallet, utxos, args, txData, txHex, signedTxHex, ncalls,
                       heap, tasks, sessionPassword, cli>>

AddressToHash160 ==
    /\ call.op = "none"
    /\ \E a \in AddressInputs :
        /\ call' = [op |-> "addressToHash160", arg |-> a]
        /\ ret' = addressToHash160(a)
        /\ UNCHANGED <<wallet, utxos, args, txData, txHex, signedTxHex, ncalls,
                       heap, tasks, sessionPassword, cli>>

NextAddr ==
    \/ GenerateAddress
    \/ IsValidAddress
    \/ ValidateAddress
    \/ AddressToHash160
    \/ Return

SpecAddr == InitAddr /\ [][NextAddr]_vars

(***************************************************************************)
(* Inputs of the transaction pipeline                                      *)
(***************************************************************************)
\* createPayToPubKeyHashScript applied to the hash of a public key: what the
\* network reports as the locking script of an output paying that key
LockingScript(publicKeyHex) ==
    Str(<<"7", "6", "a", "9", "1", "4">> \o toHex(hash160(fromHex(publicKeyHex)))
            \o <<"8", "8", "a", "c">>)

Txid(b) == toHex([i \in 1..32 |-> (16 * b + i) % 256])

\* the UTXOs the network knows: paying the standard key of wallet 1, its
\* legacy key, an output reported without a locking script, and one paying
\* wallet 2; two of them have the same number of confirmations
UtxoPool ==
    << [txid |-> Txid(1), vout |-> 0, value |-> 30000, confirmations |-> 10,
        scriptPubKey |-> LockingScript(derivePublicKey(KeyHex(1)).val)],
       [txid |-> Txid(2), vout |-> 1, value |-> 25000, confirmations |-> 3,
        scriptPubKey |-> LockingScript(derivePublicKeyLegacy(KeyHex(1)))],
       [txid |-> Txid(3), vout |-> 258, value |-> 5000, confirmations |-> 3,
        scriptPubKey |-> Undefined],
       [txid |-> Txid(4), vout |-> 0, value |-> 100000, confirmations |-> 0,
        scriptPubKey |-> LockingScript(derivePublicKey(KeyHex(2)).val)] >>

MaxUtxos == 2

\* the arrays of at most MaxUtxos distinct UTXOs, in every order
UtxoLists ==
    UNION {{[i \in 1..n |-> UtxoPool[f[i]]] :
                f \in {g \in [1..n -> 1..Len(UtxoPool)] :
                          \A i, j \in 1..n : i # j => g[i] # g[j]}} :
           n \in 0..MaxUtxos}

WalletOf(privateKeyHex) ==
    [privateKey |-> privateKeyHex,
     publicKey |-> derivePublicKey(privateKeyHex).val,
     address |-> generateAddress(derivePublicKey(privateKeyHex).val)]

\* amounts in TETSUO, as multiples of half a satoshi
Amount(halfSatoshis) == [n |-> halfSatoshis, d |-> 2 * COIN_VALUE]

AmountChoices == {Amount(h) : h \in {1, 10000, 20000, 400000, -20000}}

\* an address that decodes with a correct checksum to another version byte
WrongVersionAddress == Str(base58check(<<66>> \o Rep(7, 20)))

\* strings that are no address: the literal of tests/address.test.ts, a
\* payload with another version byte, an address with one character replaced
BadAddresses ==
    { Str(<<"i", "n", "v", "a", "l", "i", "d">>),
      WrongVersionAddress,
      Str(ReplaceAt(generateAddress(derivePublicKey(KeyHex(1)).val).v, 5, "1")) }

OwnAddress == generateAddress(derivePublicKey(KeyHex(1)).val)

OtherAddress == generateAddress(derivePublicKey(KeyHex(2)).val)

\* every amount, with valid addresses
GoodArgs ==
    {[from |-> OwnAddress, to |-> OtherAddress, amount |-> a, change |-> OwnAddress] :
        a \in AmountChoices}

\* one invalid address at a time
BadArgs ==
    {[from |-> b, to |-> OtherAddress, amount |-> Amount(20000), change |-> OwnAddress] :
        b \in BadAddresses}
        \cup {[from |-> OwnAddress, to |-> b, amount |-> Amount(20000), change |-> OwnAddress] :
                  b \in BadAddresses}
        \cup {[from |-> OwnAddress, to |-> OtherAddress, amount |-> Amount(20000), change |-> b] :
                  b \in BadAddresses}

\* input counts on both sides of the size from which the fee exceeds MIN_FEE
FeeInputCounts == {0, 2, 1688, 1689, 1696}

\* a private key that is the scalar 0
ZeroKey == toHex(Rep(0, 32))

\* the outputs as built, or with the address of one output replaced
OutputChoices(outputs) ==
    {outputs} \cup
        {[i \in 1..Len(outputs) |->
             IF i = j THEN [outputs[i] EXCEPT !.address = WrongVersionAddress] ELSE outputs[i]] :
            j \in 1..Len(outputs)}

(***************************************************************************)
(* The transaction pipeline as a state machine: the /send command calls    *)
(* buildTransaction, createTransactionHex and signTransaction in turn;     *)
(* each action is one call of the library.                                 *)
(***************************************************************************)
MaxCalls == 2

Init ==
    /\ call = [op |-> "none"]
    /\ ret = Ok(JsNull)
    /\ wallet = WalletOf(KeyHex(1))
    /\ \/ utxos \in UtxoLists /\ args \in GoodArgs
       \/ utxos \in {u \in UtxoLists : Len(u) <= 1} /\ args \in BadArgs
    /\ txData = JsNull
    /\ txHex = JsNull
    /\ signedTxHex = JsNull
    /\ ncalls = 0
    /\ heap = <<>>
    /\ tasks = <<>>
    /\ sessionPassword = JsNull
    /\ cli = [pc |-> "none"]

\* the caller makes its next call of the pipeline once a call on the side has
\* returned
Ready == call.op \notin {"validateAddress", "addressToHash160", "estimateFee"}

\* validateAddress or addressToHash160 on one of the caller's addresses
CheckAddress ==
    /\ call.op = "none"
    /\ \E a \in {args.from, args.to, args.change}, op \in {"validateAddress", "addressToHash160"} :
        /\ call' = [op |-> op, arg |-> a]
        /\ ret' = IF op = "validateAddress" THEN validateAddress(a) ELSE addressToHash160(a)
    /\ UNCHANGED <<wallet, utxos, args, txData, txHex, signedTxHex, ncalls,
                   heap, tasks, sessionPassword, cli>>

\* estimateFee(inputCount, outputCount)
EstimateFee ==
    /\ call.op = "none"
    /\ \E inputCount \in FeeInputCounts, outputCount \in {1, 2} :
        /\ call' = [op |-> "estimateFee", inputCount |-> inputCount,
                    outputCount |-> outputCount]
        /\ ret' = Ok(estimateFee(inputCount, outputCount))
    /\ UNCHANGED <<wallet, utxos, args, txData, txHex, signedTxHex, ncalls,
                   heap, tasks, sessionPassword, cli>>

\* a side call has returned
ReturnSide ==
    /\ ~Ready
    /\ Return

\* const txData = buildTransaction(from, to, amount, utxos, change), at any
\* time until the transaction is signed; the caller keeps what the first call
\* returned. The array is sorted once the three addresses have passed
\* validation.
Build ==
    /\ Ready
    /\ ncalls < MaxCalls
    /\ signedTxHex = JsNull
    /\ call' = [op |-> "buildTransaction"]
    /\ ret' = buildTransaction(args.from, args.to, args.amount, utxos, args.change)
    /\ utxos' = IF ret'.ok \/ ret'.err.name = "InsufficientFundsError"
                THEN UtxosAfterSort(utxos) ELSE utxos
    /\ txData' = IF ncalls = 0 THEN ret' ELSE txData
    /\ ncalls' = ncalls + 1
    /\ UNCHANGED <<wallet, args, txHex, signedTxHex, heap, tasks, sessionPassword, cli>>

\* const txHex = createTransactionHex(txData.inputs, outputs), once
CreateHex ==
    /\ Ready
    /\ txData # JsNull
    /\ txData.ok
    /\ txHex = JsNull
    /\ \E outputs \in OutputChoices(txData.val.outputs) :
        /\ call' = [op |-> "createTransactionHex", outputs |-> outputs]
        /\ ret' = createTransactionHex(txData.val.inputs, outputs, Undefined)
        /\ txHex' = ret'
    /\ UNCHANGED <<wallet, utxos, args, txData, signedTxHex, ncalls,
                   heap, tasks, sessionPassword, cli>>

\* const signedTxHex = signTransaction(txHex, privateKey, txData.inputs, utxos),
\* with the wallet's key or the zero key, with or without the UTXO array
Sign ==
    /\ Ready
    /\ txHex # JsNull
    /\ txHex.ok
    /\ signedTxHex = JsNull
    /\ \E privateKey \in {wallet.privateKey, ZeroKey}, utxosArg \in {Arr(utxos), Undefined} :
        /\ call' = [op |-> "signTransaction", privateKey |-> privateKey,
                    utxos |-> utxosArg]
        /\ ret' = signTransaction(txHex.val, privateKey, txData.val.inputs, utxosArg)
        /\ signedTxHex' = ret'
    /\ UNCHANGED <<wallet, utxos, args, txData, txHex, ncalls,
                   heap, tasks, sessionPassword, cli>>

Next ==
    \/ CheckAddress
    \/ EstimateFee
    \/ ReturnSide
    \/ Build
    \/ CreateHex
    \/ Sign

Spec == Init /\ [][Next]_vars

(***************************************************************************)
(* The base58 codec as a state machine: each action is one call            *)
(***************************************************************************)
MaxBufLen == 3

\* byte buffers of at most MaxBufLen bytes: zero bytes, the digits around the
\* base, the largest byte
Buffers == UNION {[1..n -> {0, 1, 58, 255}] : n \in 0..MaxBufLen}

\* strings that no encoder produced: the literal of tests/crypto.test.ts, the
\* empty string, characters outside the alphabet, leading '1's
CodecStrings ==
    { <<"i", "n", "v", "a", "l", "i", "d">>,
      <<>>,
      <<"1">>,
      <<"1", "1", "2">>,
      <<"0">>,
      <<"2", "O">>,
      <<"z", "z", "z", "z", "z", "z">> }

\* an encoded string as it arrives: intact, with its last character replaced,
\* with a character appended, without its last character
Received(encoded) ==
    { encoded,
      ReplaceAt(encoded, Len(encoded), IF encoded[Len(encoded)] = "2" THEN "3" ELSE "2"),
      encoded \o <<"2">>,
      JsSlice(encoded, 0, -1) }

\* const encoded = toBase58(data)
ToBase58 ==
    /\ call.op = "none"
    /\ \E data \in Buffers :
        /\ call' = [op |-> "toBase58", arg |-> data]
        /\ ret' = Ok(toBase58(data))
    /\ UNCHANGED <<wallet, utxos, args, txData, txHex, signedTxHex, ncalls,
                   heap, tasks, sessionPassword, cli>>

\* const decoded = fromBase58(encoded), or fromBase58 of another string
FromBase58 ==
    /\ \/ /\ call.op = "toBase58"
          /\ call' = [op |-> "fromBase58", arg |-> ret.val, encoded |-> TRUE,
                      data |-> call.arg]
          /\ ret' = fromBase58(ret.val)
       \/ /\ call.op = "none"
          /\ \E str \in CodecStrings :
              /\ call' = [op |-> "fromBase58", arg |-> str, encoded |-> FALSE,
                          data |-> <<>>]
              /\ ret' = fromBase58(str)
    /\ UNCHANGED <<wallet, utxos, args, txData, txHex, signedTxHex, ncalls,
                   heap, tasks, sessionPassword, cli>>

\* const encoded = base58check(data)
Base58check ==
    /\ call.op = "none"
    /\ \E data \in Buffers :
        /\ call' = [op |-> "base58check", arg |-> data]
        /\ ret' = Ok(base58check(data))
    /\ UNCHANGED <<wallet, utxos, args, txData, txHex, signedTxHex, ncalls,
                   heap, tasks, sessionPassword, cli>>

\* const decoded = base58checkDecode(encoded), of what base58check returned
\* as it is received, of what toBase58 returned, or of another string
Base58checkDecode ==
    /\ \/ /\ call.op = "base58check"
          /\ \E str \in Received(ret.val) :
              /\ call' = [op |-> "base58checkDecode", arg |-> str,
                          encoded |-> str = ret.val, data |-> call.arg]
              /\ ret' = base58checkDecode(str)
       \/ /\ call.op = "toBase58"
          /\ call' = [op |-> "base58checkDecode", arg |-> ret.val, encoded |-> FALSE,
                      data |-> <<>>]
          /\ ret' = base58checkDecode(ret.val)
       \/ /\ call.op = "none"
          /\ \E str \in CodecStrings :
              /\ call' = [op |-> "base58checkDecode", arg |-> str, encoded |-> FALSE,
                          data |-> <<>>]
              /\ ret' = base58checkDecode(str)
    /\ UNCHANGED <<wallet, utxos, args, txData, txHex, signedTxHex, ncalls,
                   heap, tasks, sessionPassword, cli>>

NextCodec ==
    \/ ToBase58
    \/ FromBase58
    \/ Base58check
    \/ Base58checkDecode
    \/ Return

SpecCodec == InitAddr /\ [][NextCodec]_vars

(***************************************************************************)
(* wallet.ts: generation and import. A phrase is the sequence of its       *)
(* words; the word list, the checksum, the seed are scaled-down stand-ins  *)
(* for the bip39 library.                                                  *)
(***************************************************************************)
\* the first words of the bip39 list, then words that are not in it
Words == <<"abandon", "ability", "able", "about", "invalid", "mnemonic", "phrase">>

WordListSize == 4

EntropyLen == 2

\* the byte a word contributes to the seed
WordCode(word) == CHOOSE i \in 1..Len(Words) : Words[i] = word

\* the checksum word of an entropy
ChecksumWord(entropy) == Words[(Absorb(entropy, 47) % WordListSize) + 1]

\* bip39.entropyToMnemonic: one word for each part of the entropy, then the
\* checksum word
entropyToMnemonic(entropy) ==
    [i \in 1..Len(entropy) |-> Words[entropy[i] + 1]] \o <<ChecksumWord(entropy)>>

\* bip39.validateMnemonic: the number of words, every word in the list, the
\* checksum
validateMnemonic(mnemonic) ==
    /\ Len(mnemonic) = EntropyLen + 1
    /\ \A i \in 1..Len(mnemonic) : \E j \in 1..WordListSize : Words[j] = mnemonic[i]
    /\ mnemonic[Len(mnemonic)]
           = ChecksumWord([i \in 1..EntropyLen |-> WordCode(mnemonic[i]) - 1])

\* bip39.mnemonicToSeed: 64 bytes that the words determine
mnemonicToSeed(mnemonic) ==
    Squeeze(Absorb([i \in 1..Len(mnemonic) |-> WordCode(mnemonic[i])], 61), 64)

\* Buffer.from('tetsuo_wallet_salt')
TETSUO_SALT ==
    <<116, 101, 116, 115, 117, 111, 95, 119, 97, 108, 108, 101, 116, 95, 115, 97, 108, 116>>

\* { privateKey, publicKey, address } once the public key is derived; the
\* error of derivePublicKey goes to the caller
KeysOf(privateKey, publicKey) ==
    IF ~publicKey.ok THEN publicKey
    ELSE Ok([privateKey |-> privateKey, publicKey |-> publicKey.val,
             address |-> generateAddress(publicKey.val)])

PrivateKeyOfSeed(seed) == toHex(sha256(sha256(seed \o TETSUO_SALT) \o TETSUO_SALT))

DeriveKeys(privateKey) == KeysOf(privateKey, derivePublicKey(privateKey))

deriveFromMnemonic(mnemonic) == DeriveKeys(PrivateKeyOfSeed(mnemonicToSeed(mnemonic)))

\* { mnemonic, privateKey, publicKey, address }
WithMnemonic(mnemonic, derived) ==
    IF ~derived.ok THEN derived
    ELSE Ok([mnemonic |-> mnemonic, privateKey |-> derived.val.privateKey,
             publicKey |-> derived.val.publicKey, address |-> derived.val.address])

\* generateWallet, for the 16 bytes that randomBytes returns
generateWallet(entropy) ==
    WithMnemonic(entropyToMnemonic(entropy), deriveFromMnemonic(entropyToMnemonic(entropy)))

\* the phrase is not validated
AcceptMnemonic(mnemonic) == Ok(mnemonic)

\* importFromMnemonic up to its await: the phrase, or the WalletError
CheckMnemonic(mnemonic) ==
    IF ~validateMnemonic(mnemonic) THEN Throw(Error("WalletError")) ELSE Ok(mnemonic)

\* the public key comes from the legacy derivation
ImportLegacy(privateKeyHex) == Ok(derivePublicKeyLegacy(privateKeyHex))

\* the try block of importFromPrivateKey up to the public key
ImportDerive(privateKeyHex) == derivePublicKey(privateKeyHex)

importFromPrivateKey(privateKeyHex) ==
    IF ~Truthy(privateKeyHex) \/ Len(privateKeyHex.v) # 64 THEN Throw(Error("WalletError"))
    ELSE CatchWalletError(KeysOf(privateKeyHex.v, ImportDerive(privateKeyHex.v)))

(***************************************************************************)
(* The wallet functions as a state machine                                 *)
(***************************************************************************)
Entropies == [1..EntropyLen -> 0..(WordListSize - 1)]

\* phrases that were not generated: the literal of the tests, no words, a
\* word too few, a word outside the list, and the phrase with its checksum
\* word replaced
OtherPhrases(mnemonic) ==
    { <<"invalid", "mnemonic", "phrase">>,
      <<>>,
      JsSlice(mnemonic, 0, -1),
      ReplaceAt(mnemonic, 1, "phrase"),
      ReplaceAt(mnemonic, Len(mnemonic),
                IF mnemonic[Len(mnemonic)] = "able" THEN "about" ELSE "able") }

\* the scalar n + 1 in hexadecimal, 64 characters
AboveOrder == toHex(BigMulAdd(curveOrder, 1, 1))

\* private keys that did not come from a phrase: the literals of the tests,
\* no key, scalars at the ends of the range and outside it, a key of 66
\* characters, a key with a character that is no hexadecimal digit
OtherKeys ==
    { JsNull,
      Str(<<>>),
      Str(<<"i", "n", "v", "a", "l", "i", "d">>),
      Str(<<"0", "0", "0", "0">>),
      Str(toHex(Rep(0, 31) \o <<1>>)),
      Str(toHex(BigSub(curveOrder, <<1>>))),
      Str(ZeroKey),
      Str(toHex(curveOrder)),
      Str(AboveOrder),
      Str(KeyHex(255)),
      Str(KeyHex(1) \o <<"0", "0">>),
      Str(ReplaceAt(KeyHex(1), 64, "g")) }

IsHex(str) == \A i \in 1..Len(str) : HexVal(str[i]) # -1

\* what importFromPrivateKey can return: for a key of 64 characters that are
\* not all hexadecimal digits, the number parser of the curve library reads
\* the other characters as digits or throws, depending on its version
ImportOutcomes(privateKeyHex) ==
    {importFromPrivateKey(privateKeyHex)}
        \cup IF Truthy(privateKeyHex) /\ Len(privateKeyHex.v) = 64 /\ ~IsHex(privateKeyHex.v)
             THEN {Throw(Error("WalletError"))} ELSE {}

\* const generated = await generateWallet()
GenerateWallet ==
    /\ call.op = "none"
    /\ wallet = NoWallet
    /\ \E entropy \in Entropies :
        /\ call' = [op |-> "generateWallet"]
        /\ ret' = generateWallet(entropy)
        /\ wallet' = IF ret'.ok THEN ret'.val ELSE wallet
    /\ UNCHANGED <<utxos, args, txData, txHex, signedTxHex, ncalls,
                   heap, tasks, sessionPassword, cli>>

\* importFromMnemonic(phrase) up to its await
ImportFromMnemonic ==
    /\ call.op = "none"
    /\ wallet # NoWallet
    /\ \E mnemonic \in {wallet.mnemonic} \cup OtherPhrases(wallet.mnemonic) :
        /\ call' = [op |-> "importFromMnemonic", arg |-> mnemonic,
                    pc |-> IF CheckMnemonic(mnemonic).ok THEN "derive" ELSE "done",
                    derived |-> FALSE]
        /\ ret' = IF CheckMnemonic(mnemonic).ok THEN Ok(Undefined)
                  ELSE CheckMnemonic(mnemonic)
    /\ UNCHANGED <<wallet, utxos, args, txData, txHex, signedTxHex, ncalls,
                   heap, tasks, sessionPassword, cli>>

\* const wallet = await deriveFromMnemonic(mnemonic), and the return
DeriveFromMnemonic ==
    /\ call.op = "importFromMnemonic"
    /\ call.pc = "derive"
    /\ call' = [call EXCEPT !.pc = "done", !.derived = TRUE]
    /\ ret' = WithMnemonic(call.arg, deriveFromMnemonic(call.arg))
    /\ UNCHANGED <<wallet, utxos, args, txData, txHex, signedTxHex, ncalls,
                   heap, tasks, sessionPassword, cli>>

\* importFromPrivateKey(key)
ImportFromPrivateKey ==
    /\ call.op = "none"
    /\ wallet # NoWallet
    /\ \E key \in {Str(wallet.privateKey)} \cup OtherKeys :
        /\ call' = [op |-> "importFromPrivateKey", arg |-> key]
        /\ ret' \in ImportOutcomes(key)
    /\ UNCHANGED <<wallet, utxos, args, txData, txHex, signedTxHex, ncalls,
                   heap, tasks, sessionPassword, cli>>

\* derivePublicKey(privateKey) or generateAddress(publicKey), once more
DeriveAgain ==
    /\ call.op = "none"
    /\ wallet # NoWallet
    /\ \/ /\ call' = [op |-> "derivePublicKey", arg |-> wallet.privateKey]
          /\ ret' = derivePublicKey(wallet.privateKey)
       \/ /\ call' = [op |-> "generateAddress", arg |-> wallet.publicKey]
          /\ ret' = Ok(generateAddress(wallet.publicKey))
    /\ UNCHANGED <<wallet, utxos, args, txData, txHex, signedTxHex, ncalls,
                   heap, tasks, sessionPassword, cli>>

\* the call has returned; an import that awaits its derivation goes on
ReturnWallet ==
    /\ call.op = "importFromMnemonic" => call.pc = "done"
    /\ Return

NextWallet ==
    \/ GenerateWallet
    \/ ImportFromMnemonic
    \/ DeriveFromMnemonic
    \/ ImportFromPrivateKey
    \/ DeriveAgain
    \/ ReturnWallet

SpecWallet == InitAddr /\ [][NextWallet]_vars

(***************************************************************************)
(* The encoding of a signature as a state machine: each action is one call *)
(* of encodeDERSignature, from the loop over the inputs or from the        *)
(* fallback                                                                *)
(***************************************************************************)
\* floor(n / 2)
HalfOrder == BigDiv(curveOrder, 2)

\* scalars in 1..n-1: the ends of the range, both sides of n / 2, first
\* bytes on both sides of 0x7f, short and long numbers
Scalars ==
    { <<1>>, <<127>>, <<128>>, <<1, 0>>, Rep(1, 32), Rep(127, 32), Rep(128, 32),
      <<255>> \o Rep(0, 31),
      BigSub(HalfOrder, <<1>>), HalfOrder, BigMulAdd(HalfOrder, 1, 1),
      BigMulAdd(HalfOrder, 1, 2), BigSub(curveOrder, <<128>>),
      BigSub(curveOrder, <<127>>), BigSub(curveOrder, <<2>>), BigSub(curveOrder, <<1>>) }

RScalars == { <<1>>, <<128>>, Rep(127, 32), BigSub(curveOrder, <<1>>) }

\* const derSig = encodeDERSignature(rHex, sHex) + '01', in the loop over the
\* inputs
EncodeForInput ==
    /\ call.op = "none"
    /\ \E r \in RScalars, s \in Scalars :
        /\ call' = [op |-> "encodeDERSignature", path |-> "input", r |-> r, s |-> s]
        /\ ret' = Ok(DerSig([r |-> r, s |-> s]))
    /\ UNCHANGED <<wallet, utxos, args, txData, txHex, signedTxHex, ncalls,
                   heap, tasks, sessionPassword, cli>>

\* const derSig = encodeDERSignature(rHex, sHex) + '01', in the fallback
EncodeForFallback ==
    /\ call.op = "none"
    /\ \E r \in RScalars, s \in Scalars :
        /\ call' = [op |-> "encodeDERSignature", path |-> "fallback", r |-> r, s |-> s]
        /\ ret' = Ok(DerSig([r |-> r, s |-> s]))
    /\ UNCHANGED <<wallet, utxos, args, txData, txHex, signedTxHex, ncalls,
                   heap, tasks, sessionPassword, cli>>

NextDer == EncodeForInput \/ EncodeForFallback \/ Return

SpecDer == InitAddr /\ [][NextDer]_vars

(***************************************************************************)
(* types.ts: the command line program, from its start to its exit          *)
(***************************************************************************)
\* what is typed at the password prompt: nothing, or one of two passwords
Passwords ==
    { <<>>,
      <<"h", "u", "n", "t", "e", "r", "2", "2">>,
      <<"p", "a", "s", "s", "w", "o", "r", "d">> }

\* the wallet file at startup: JSON, the store encrypted with a password of
\* at least 8 characters, or colons without the four parts
WalletFiles ==
    {[kind |-> "plain"], [kind |-> "malformed"]}
        \cup {[kind |-> "encrypted", password |-> password] :
                 password \in {p \in Passwords : Len(p) >= 8}}

\* data.includes(':') && !data.startsWith('{')
isWalletEncrypted(file) == file.kind # "plain"

ErrorWith(message) == [name |-> "Error", message |-> message]

\* AES-256-GCM: the authentication fails unless the key is the one the data
\* was encrypted with
decryptData(file, password) ==
    IF file.kind = "malformed" THEN Throw(ErrorWith("Invalid encrypted data format"))
    ELSE IF password # file.password
    THEN Throw(ErrorWith("Unsupported state or unable to authenticate data"))
    ELSE Ok("store")

\* the catch clause of loadWallets
InvalidPassword(outcome) ==
    IF ~outcome.ok /\ outcome.err.message = "Unsupported state or unable to authenticate data"
    THEN Throw(ErrorWith("Invalid password"))
    ELSE outcome

loadWallets(file, password) ==
    IF ~isWalletEncrypted(file) THEN Ok("store")
    ELSE IF ~Truthy(password) THEN Throw(ErrorWith("Wallet is locked. Please unlock first."))
    ELSE InvalidPassword(decryptData(file, password.v))

\* a fourth attempt is allowed
AttemptsBelowFour(attempts) == attempts < 4

\* attempts < 3
MoreAttempts(attempts) == attempts < 3

MaxCommands == 2

InitCli ==
    /\ call = [op |-> "none"]
    /\ ret = Ok(JsNull)
    /\ wallet = NoWallet
    /\ utxos = <<>>
    /\ args = JsNull
    /\ txData = JsNull
    /\ txHex = JsNull
    /\ signedTxHex = JsNull
    /\ ncalls = 0
    /\ heap = <<>>
    /\ tasks = <<>>
    /\ sessionPassword = JsNull
    /\ \E file \in WalletFiles :
        cli = [pc |-> "main", file |-> file, attempts |-> 0, entered |-> <<>>,
               commands |-> 0, status |-> JsNull]

\* main up to its first prompt: the unlocking for an encrypted file;
\* otherwise the command loop, with or without a password set up
Main ==
    /\ cli.pc = "main"
    /\ IF isWalletEncrypted(cli.file)
       THEN /\ cli' = [cli EXCEPT !.pc = "unlockWallet"]
            /\ UNCHANGED sessionPassword
       ELSE /\ cli' = [cli EXCEPT !.pc = "loop"]
            /\ sessionPassword' \in {JsNull} \cup {Str(p) : p \in {q \in Passwords : Len(q) >= 8}}
    /\ UNCHANGED <<call, ret, wallet, utxos, args, txData, txHex, signedTxHex, ncalls,
                   heap, tasks>>

\* one round of the loop of unlockWallet, from the answer to the prompt; after
\* the last round unlockWallet returns false and main exits
EnterPassword ==
    /\ cli.pc = "unlockWallet"
    /\ MoreAttempts(cli.attempts)
    /\ \E password \in Passwords :
        IF loadWallets(cli.file, Str(password)).ok
        THEN /\ sessionPassword' = Str(password)
             /\ cli' = [cli EXCEPT !.pc = "loop", !.entered = Append(@, password)]
        ELSE /\ sessionPassword' = JsNull
             /\ cli' = [cli EXCEPT !.attempts = @ + 1,
                                   !.entered = Append(@, password),
                                   !.pc = IF MoreAttempts(cli.attempts + 1)
                                          THEN "unlockWallet" ELSE "exited",
                                   !.status = IF MoreAttempts(cli.attempts + 1)
                                              THEN JsNull ELSE 1]
    /\ UNCHANGED <<call, ret, wallet, utxos, args, txData, txHex, signedTxHex, ncalls,
                   heap, tasks>>

\* one round of the command loop: the store is loaded, a command is read and
\* processed; /exit clears the password and ends the program
Command ==
    /\ cli.pc = "loop"
    /\ IF ~loadWallets(cli.file, sessionPassword).ok
       THEN /\ cli' = [cli EXCEPT !.pc = "exited", !.status = 1]
            /\ UNCHANGED sessionPassword
       ELSE \/ /\ cli.commands < MaxCommands
               /\ cli' = [cli EXCEPT !.commands = @ + 1]
               /\ UNCHANGED sessionPassword
            \/ /\ cli' = [cli EXCEPT !.commands = @ + 1, !.pc = "exited", !.status = 0]
               /\ sessionPassword' = JsNull
    /\ UNCHANGED <<call, ret, wallet, utxos, args, txData, txHex, signedTxHex, ncalls,
                   heap, tasks>>

\* process.on('SIGINT'), while the program waits at a prompt
Sigint ==
    /\ cli.pc \in {"unlockWallet", "loop"}
    /\ sessionPassword' = JsNull
    /\ cli' = [cli EXCEPT !.pc = "exited", !.status = 0]
    /\ UNCHANGED <<call, ret, wallet, utxos, args, txData, txHex, signedTxHex, ncalls,
                   heap, tasks>>

NextCli == Main \/ EnterPassword \/ Command \/ Sigint

SpecCli == InitCli /\ [][NextCli]_vars

(***************************************************************************)
(* Callers side by side: each task takes its own transaction through       *)
(* buildTransaction, createTransactionHex and signTransaction; the steps   *)
(* of the tasks, and the rounds of the signing loop, interleave in every   *)
(* order. The tasks hold their UTXO arrays by reference.                   *)
(***************************************************************************)
\* the arrays on the heap: out of the order of the confirmations, and with
\* an output that has no locking script
TaskArrays ==
    << <<UtxoPool[1], UtxoPool[2]>>, <<UtxoPool[3], UtxoPool[1]>> >>

TaskAmounts == {Amount(1), Amount(20000)}

\* a task before its first call: its arguments, the array it holds
NewTask(toAddress, amount, array) ==
    [args |-> [from |-> OwnAddress, to |-> toAddress, amount |-> amount,
               change |-> OwnAddress],
     privateKey |-> KeyHex(1), array |-> array, given |-> TaskArrays[array],
     pc |-> "buildTransaction", txData |-> JsNull, txHex |-> JsNull,
     pubKeyCompressed |-> JsNull, i |-> 0, scriptSigs |-> <<>>, signedTxHex |-> JsNull]

InitTasks ==
    /\ call = [op |-> "none"]
    /\ ret = Ok(JsNull)
    /\ wallet = NoWallet
    /\ utxos = <<>>
    /\ args = JsNull
    /\ txData = JsNull
    /\ txHex = JsNull
    /\ signedTxHex = JsNull
    /\ ncalls = 0
    /\ sessionPassword = JsNull
    /\ cli = [pc |-> "none"]
    /\ heap = TaskArrays
    /\ \E a1 \in TaskAmounts, a2 \in TaskAmounts, array \in 1..Len(TaskArrays) :
        tasks = <<NewTask(OtherAddress, a1, 1), NewTask(OwnAddress, a2, array)>>

\* the task's record after buildTransaction
Built(task, outcome) ==
    [task EXCEPT !.txData = outcome,
                 !.pc = IF outcome.ok THEN "createTransactionHex" ELSE "done"]

\* buildTransaction(from, to, amount, utxos, change) of task t
TaskBuild(t) ==
    /\ tasks[t].pc = "buildTransaction"
    /\ tasks' = [tasks EXCEPT ![t] =
                    Built(@, buildTransaction(@.args.from, @.args.to, @.args.amount,
                                              heap[@.array], @.args.change))]
    /\ heap' = [heap EXCEPT ![tasks[t].array] =
                   IF tasks'[t].txData.ok
                       \/ tasks'[t].txData.err.name = "InsufficientFundsError"
                   THEN UtxosAfterSort(@) ELSE @]

\* createTransactionHex(txData.inputs, txData.outputs) of task t
TaskCreateHex(t) ==
    /\ tasks[t].pc = "createTransactionHex"
    /\ tasks' = [tasks EXCEPT ![t] =
                    [@ EXCEPT !.txHex = createTransactionHex(tasks[t].txData.val.inputs,
                                                             tasks[t].txData.val.outputs,
                                                             Undefined),
                              !.pc = "signTransaction"]]
    /\ UNCHANGED heap

\* the task's record once signTransaction has returned
Signed(task, outcome) == [task EXCEPT !.signedTxHex = outcome, !.pc = "done"]

\* signTransaction up to its loop: the public key is derived and chosen
SignBegun(task, derived, utxosArg) ==
    IF ~derived.ok
    THEN Signed(task, CatchFallback(derived, task.txHex.val, task.privateKey))
    ELSE [task EXCEPT !.pubKeyCompressed =
                          DetectPublicKey(task.privateKey, derived.val, utxosArg),
                      !.i = 1, !.pc = "input"]

TaskSignBegin(t) ==
    /\ tasks[t].pc = "signTransaction"
    /\ tasks[t].txHex.ok
    /\ tasks' = [tasks EXCEPT ![t] =
                    SignBegun(@, derivePublicKey(@.privateKey), Arr(heap[@.array]))]
    /\ UNCHANGED heap

\* one round of the loop: the scriptSig of input i, or the error and the
\* fallback
InputSigned(task, scriptPubKey) ==
    IF ~Truthy(scriptPubKey)
    THEN Signed(task, CatchFallback(Throw(Error("Error")), task.txHex.val, task.privateKey))
    ELSE [task EXCEPT
             !.scriptSigs =
                 Append(@, ScriptSig(task.privateKey,
                                     doubleSha256(fromHex(
                                         Preimage(task.txHex.val, task.txData.val.inputs,
                                                  task.i, scriptPubKey.v))),
                                     task.pubKeyCompressed)),
             !.i = @ + 1]

TaskSignInput(t) ==
    /\ tasks[t].pc = "input"
    /\ tasks[t].i <= Len(tasks[t].txData.val.inputs)
    /\ tasks' = [tasks EXCEPT ![t] =
                    InputSigned(@, ScriptPubKeyAt(Arr(heap[@.array]), @.i - 1))]
    /\ UNCHANGED heap

\* the transaction is put together from the scriptSigs
TaskSignEnd(t) ==
    /\ tasks[t].pc = "input"
    /\ tasks[t].i > Len(tasks[t].txData.val.inputs)
    /\ tasks' = [tasks EXCEPT ![t] =
                    Signed(@, Ok(Rebuild(@.txHex.val, @.txData.val.inputs, @.scriptSigs)))]
    /\ UNCHANGED heap

Others == <<call, ret, wallet, utxos, args, txData, txHex, signedTxHex, ncalls,
            sessionPassword, cli>>

BuildStep == (\E t \in 1..Len(tasks) : TaskBuild(t)) /\ UNCHANGED Others

CreateHexStep == (\E t \in 1..Len(tasks) : TaskCreateHex(t)) /\ UNCHANGED Others

SignBeginStep == (\E t \in 1..Len(tasks) : TaskSignBegin(t)) /\ UNCHANGED Others

SignInputStep == (\E t \in 1..Len(tasks) : TaskSignInput(t)) /\ UNCHANGED Others

SignEndStep == (\E t \in 1..Len(tasks) : TaskSignEnd(t)) /\ UNCHANGED Others

NextTasks == BuildStep \/ CreateHexStep \/ SignBeginStep \/ SignInputStep \/ SignEndStep

SpecTasks == InitTasks /\ [][NextTasks]_vars

(***************************************************************************)
(* The serialisation as a state machine: each action is one call of        *)
(* encodeVarInt, createTransactionHex or findOutputsPositionInHex          *)
(***************************************************************************)
\* numbers on both sides of every limit of encodeVarInt that a number of
\* the model can reach
VarIntNumbers == 0..300 \cup {65535, 65536, 65537, 16777215, 16777216, 2147483647}

MaxHexInputs == 2

\* the lengths in bytes of the scripts that inputs carry: on both sides of
\* the limit of the one-byte length
ScriptSizes == {1, 25, 252, 253, 300}

\* a script of that many bytes
ScriptOf(size) == Str([i \in 1..(2 * size) |-> IF i % 2 = 1 THEN "a" ELSE "c"])

\* n inputs
HexInputs(n) ==
    [i \in 1..n |-> [txid |-> Txid(i), vout |-> (i - 1) * 258,
                     sequence |-> IF i % 2 = 1 THEN SEQUENCE_FINAL
                                  ELSE <<255, 255, 255, 253>>]]

\* the scriptPubKeys argument for n inputs: absent, or one optional script
\* for each input
ScriptArrays(n) ==
    {Undefined} \cup {Arr(a) : a \in [1..n -> {Undefined} \cup {ScriptOf(b) : b \in ScriptSizes}]}

\* one output, or two
HexOutputs ==
    { <<[address |-> OtherAddress, value |-> 10000]>>,
      <<[address |-> OtherAddress, value |-> 16777216],
        [address |-> OwnAddress, value |-> 5000]>> }

\* calls with many inputs and with a long script: 253 inputs without
\* scripts, one input with a script of 65536 bytes
LargeCalls ==
    { [op |-> "createTransactionHex", inputs |-> HexInputs(253), scriptPubKeys |-> Undefined],
      [op |-> "createTransactionHex", inputs |-> HexInputs(1),
       scriptPubKeys |-> Arr(<<ScriptOf(65536)>>)] }

EncodeVarInt ==
    /\ call.op = "none"
    /\ \E num \in VarIntNumbers :
        /\ call' = [op |-> "encodeVarInt", arg |-> num]
        /\ ret' = Ok(encodeVarInt(num))
    /\ UNCHANGED <<wallet, utxos, args, txData, txHex, signedTxHex, ncalls,
                   heap, tasks, sessionPassword, cli>>

\* createTransactionHex(inputs, outputs, scriptPubKeys)
CreateTransactionHex ==
    /\ call.op = "none"
    /\ \E outputs \in HexOutputs :
        \E c \in LargeCalls
                 \cup UNION {{[op |-> "createTransactionHex", inputs |-> HexInputs(n),
                               scriptPubKeys |-> a] : a \in ScriptArrays(n)} :
                                 n \in 1..MaxHexInputs} :
            /\ c.scriptPubKeys.t = "array" => Len(c.scriptPubKeys.v) = Len(c.inputs)
            /\ call' = [op |-> "createTransactionHex", inputs |-> c.inputs,
                        outputs |-> outputs, scriptPubKeys |-> c.scriptPubKeys]
            /\ ret' = createTransactionHex(c.inputs, outputs, c.scriptPubKeys)
    /\ UNCHANGED <<wallet, utxos, args, txData, txHex, signedTxHex, ncalls,
                   heap, tasks, sessionPassword, cli>>

\* findOutputsPositionInHex(hex, inputs.length), for the transaction just
\* serialised
FindOutputsPosition ==
    /\ call.op = "createTransactionHex"
    /\ ret.ok
    /\ call' = [call EXCEPT !.op = "findOutputsPositionInHex"] @@ [hex |-> ret.val]
    /\ ret' = Ok(findOutputsPositionInHex(ret.val, Len(call.inputs)))
    /\ UNCHANGED <<wallet, utxos, args, txData, txHex, signedTxHex, ncalls,
                   heap, tasks, sessionPassword, cli>>

NextHex == EncodeVarInt \/ CreateTransactionHex \/ FindOutputsPosition \/ Return

SpecHex == InitAddr /\ [][NextHex]_vars

(***************************************************************************)
(* types.ts: the wallet store and the commands that change it. The         *)
(* commands run one after the other in the loop of main; each one loads    *)
(* the store from the wallet file and saves what it changed.               *)
(***************************************************************************)
\* { wallets: [] }
EmptyStore == [wallets |-> <<>>, selectedWallet |-> Undefined]

\* JSON.stringify(store): a property that is undefined is left out
StringifyStore(store) ==
    IF store.selectedWallet = Undefined THEN [wallets |-> store.wallets]
    ELSE [wallets |-> store.wallets, selectedWallet |-> store.selectedWallet]

\* JSON.parse(data): a property that is not there reads as undefined
ParseStore(data) ==
    [wallets |-> data.wallets,
     selectedWallet |-> IF "selectedWallet" \in DOMAIN data THEN data.selectedWallet
                        ELSE Undefined]

\* the wallet file after saveWallets(store): encrypted with the session
\* password when there is one
saveWallets(store, password) ==
    IF Truthy(password)
    THEN [kind |-> "encrypted", password |-> password.v, data |-> StringifyStore(store)]
    ELSE [kind |-> "plain", data |-> StringifyStore(store)]

\* the store that loadWallets returns for the wallet file, or what it throws
LoadStore(file, password) ==
    IF loadWallets(file, password).ok THEN Ok(ParseStore(file.data))
    ELSE loadWallets(file, password)

\* the characters of /^[a-zA-Z0-9_-]+$/
NameCharacters ==
    { "a", "b", "c", "d", "e", "f", "g", "h", "i", "j", "k", "l", "m", "n", "o", "p", "q",
      "r", "s", "t", "u", "v", "w", "x", "y", "z",
      "A", "B", "C", "D", "E", "F", "G", "H", "I", "J", "K", "L", "M", "N", "O", "P", "Q",
      "R", "S", "T", "U", "V", "W", "X", "Y", "Z",
      "0", "1", "2", "3", "4", "5", "6", "7", "8", "9", "_", "-" }

\* String.prototype.trim, for the blank
RECURSIVE TrimStart(_)
TrimStart(str) == IF str # <<>> /\ Head(str) = " " THEN TrimStart(Tail(str)) ELSE str

trim(str) == Reverse(TrimStart(Reverse(TrimStart(str))))

MaxNameLength == 50

\* the three checks of the wallet name
ValidName(trimmedName) ==
    /\ trimmedName # <<>>
    /\ Len(trimmedName) <= MaxNameLength
    /\ \A i \in 1..Len(trimmedName) : trimmedName[i] \in NameCharacters

\* store.wallets.some(w => w.name === trimmedName)
Exists(store, trimmedName) ==
    \E i \in 1..Len(store.wallets) : store.wallets[i].name = Str(trimmedName)

\* store.wallets.push({...}); if (!store.selectedWallet) store.selectedWallet
\* = trimmedName
PushWallet(store, trimmedName, privateKey) ==
    [wallets |-> Append(store.wallets, [name |-> Str(trimmedName), privateKey |-> privateKey]),
     selectedWallet |-> IF ~Truthy(store.selectedWallet) THEN Str(trimmedName)
                        ELSE store.selectedWallet]

\* the wallet file after the second half of createWallet and importWallet,
\* for the wallet that was generated or imported
AddWallet(file, password, trimmedName, made) ==
    IF ~made.ok \/ ~LoadStore(file, password).ok THEN file
    ELSE IF Exists(LoadStore(file, password).val, trimmedName) THEN file
    ELSE saveWallets(PushWallet(LoadStore(file, password).val, trimmedName, made.val),
                     password)

\* String.prototype.toLowerCase, for the letters of the answers
toLowerCase(str) ==
    [i \in 1..Len(str) |->
        CASE str[i] = "Y" -> "y" [] str[i] = "E" -> "e" [] str[i] = "S" -> "s"
          [] str[i] = "N" -> "n" [] str[i] = "O" -> "o" [] str[i] = "M" -> "m"
          [] str[i] = "I" -> "i" [] str[i] = "C" -> "c" [] str[i] = "P" -> "p"
          [] str[i] = "R" -> "r" [] str[i] = "V" -> "v" [] str[i] = "A" -> "a"
          [] str[i] = "T" -> "t" [] str[i] = "K" -> "k"
          [] OTHER -> str[i]]

\* parseInt(choice): the decimal digits at the front, NaN without one
DecimalDigits == <<"0", "1", "2", "3", "4", "5", "6", "7", "8", "9">>

DigitVal(c) ==
    IF \E d \in 1..10 : DecimalDigits[d] = c
    THEN (CHOOSE d \in 1..10 : DecimalDigits[d] = c) - 1 ELSE -1

RECURSIVE ParseDigits(_, _, _)
ParseDigits(str, i, acc) ==
    IF i > Len(str) \/ DigitVal(str[i]) = -1 THEN acc
    ELSE ParseDigits(str, i + 1, acc * 10 + DigitVal(str[i]))

parseInt(str) ==
    IF TrimStart(str) = <<>> \/ DigitVal(TrimStart(str)[1]) = -1 THEN NaN
    ELSE ParseDigits(TrimStart(str), 1, 0)

\* the wallet file after selectWallet, for the answer to its prompt
SelectByChoice(file, password, store, choice) ==
    IF parseInt(choice) # NaN /\ parseInt(choice) - 1 >= 0
           /\ parseInt(choice) - 1 < Len(store.wallets)
    THEN saveWallets([store EXCEPT !.selectedWallet = store.wallets[parseInt(choice)].name],
                     password)
    ELSE file

\* store.wallets.find(w => w.name === store.selectedWallet): its index, 0
\* when there is none
FindSelected(store) ==
    IF \E i \in 1..Len(store.wallets) : store.wallets[i].name = store.selectedWallet
    THEN CHOOSE i \in 1..Len(store.wallets) :
             /\ store.wallets[i].name = store.selectedWallet
             /\ \A j \in 1..(i - 1) : store.wallets[j].name # store.selectedWallet
    ELSE 0

\* no wallet is selected after the deletion
NoneSelected(wallets) == Undefined

\* store.wallets[0]?.name
FirstName(wallets) == IF wallets = <<>> THEN Undefined ELSE wallets[1].name

\* store.wallets.filter(w => w.name !== name)
Without(wallets, name) == SelectSeq(wallets, LAMBDA w : w.name # name)

\* the store after the deletion of the wallet of that name
RemoveWallet(store, name) ==
    [wallets |-> Without(store.wallets, name),
     selectedWallet |-> IF store.selectedWallet = name
                        THEN FirstName(Without(store.wallets, name))
                        ELSE store.selectedWallet]

\* what is typed at the prompt for the wallet name: three names that pass
\* the checks, one of them between blanks and one of the greatest length,
\* and names that fail each of the checks
TypedNames ==
    { <<"B", "-", "2">>, <<" ", "c", "_", " ">>, Rep("x", MaxNameLength),
      Rep("x", MaxNameLength + 1), <<>>, <<" ">>, <<"a", " ", "b">>, <<"d", "!">> }

\* generateWallet() and the import: a wallet with its private key, or an
\* exception (a mnemonic or a key that is not accepted ends the command
\* the same way)
MadeWallets(b) == {Ok(KeyHex(b)), Throw(ErrorWith("Invalid mnemonic"))}

ImportTypes ==
    { <<"m", "n", "e", "m", "o", "n", "i", "c">>,
      <<"P", "r", "i", "v", "a", "t", "e", "K", "e", "y">>,
      <<"s", "e", "e", "d">> }

\* what is typed at the prompt of selectWallet
Choices ==
    { <<"1">>, <<"2">>, <<"3">>, <<"4">>, <<"0">>, <<"5">>, <<"1", "0">>, <<"x">>,
      <<"2", "x">>, <<" ", "3">>, <<>> }

\* what is typed at a yes/no prompt
Answers ==
    { <<"y", "e", "s">>, <<"Y", "E", "S">>, <<"y">>, <<"Y">>, <<"n", "o">>,
      <<"y", "e", "s", " ">>, <<>> }

\* the store that the loop of main loads
CurrentStore == LoadStore(cli.file, sessionPassword).val

\* the command loop with an empty store, with or without a session password
InitStore ==
    /\ call = [op |-> "none"]
    /\ ret = Ok(JsNull)
    /\ wallet = NoWallet
    /\ utxos = <<>>
    /\ args = JsNull
    /\ txData = JsNull
    /\ txHex = JsNull
    /\ signedTxHex = JsNull
    /\ ncalls = 0
    /\ heap = <<>>
    /\ tasks = <<>>
    /\ sessionPassword \in {JsNull, Str(<<"h", "u", "n", "t", "e", "r", "2", "2">>)}
    /\ cli = [pc |-> "loop", file |-> saveWallets(EmptyStore, sessionPassword),
              last |-> [command |-> "none"]]

\* the round of the loop for a command that leaves the wallet file as file;
\* name is the wallet that /delete-wallet found selected
StoreCommand(command, name, file) ==
    /\ cli' = [cli EXCEPT !.file = file,
                          !.last = [command |-> command, name |-> name,
                                    saved |-> file # cli.file]]
    /\ UNCHANGED <<call, ret, wallet, utxos, args, txData, txHex, signedTxHex, ncalls,
                   heap, tasks, sessionPassword>>

\* /create-wallet
CreateWallet ==
    /\ cli.pc = "loop"
    /\ \E name \in TypedNames, generated \in MadeWallets(1) :
        StoreCommand("/create-wallet", Undefined,
                     IF ~ValidName(trim(name)) THEN cli.file
                     ELSE AddWallet(cli.file, sessionPassword, trim(name), generated))

\* /import-wallet
ImportWallet ==
    /\ cli.pc = "loop"
    /\ \E name \in TypedNames, type \in ImportTypes, imported \in MadeWallets(2) :
        StoreCommand("/import-wallet", Undefined,
                     IF ~ValidName(trim(name)) THEN cli.file
                     ELSE IF toLowerCase(type) \notin {<<"m", "n", "e", "m", "o", "n", "i", "c">>,
                                                       <<"p", "r", "i", "v", "a", "t", "e", "k", "e", "y">>}
                     THEN cli.file
                     ELSE AddWallet(cli.file, sessionPassword, trim(name), imported))

\* /select-wallet
SelectWallet ==
    /\ cli.pc = "loop"
    /\ IF CurrentStore.wallets = <<>>
       THEN StoreCommand("/select-wallet", Undefined, cli.file)
       ELSE \E choice \in Choices :
               StoreCommand("/select-wallet", Undefined,
                            SelectByChoice(cli.file, sessionPassword, CurrentStore, choice))

\* /delete-wallet
DeleteWallet ==
    /\ cli.pc = "loop"
    /\ IF FindSelected(CurrentStore) = 0
       THEN StoreCommand("/delete-wallet", Undefined, cli.file)
       ELSE \E confirm \in Answers :
               StoreCommand("/delete-wallet", CurrentStore.selectedWallet,
                            IF toLowerCase(confirm) # <<"y", "e", "s">> THEN cli.file
                            ELSE saveWallets(RemoveWallet(CurrentStore,
                                                          CurrentStore.selectedWallet),
                                             sessionPassword))

NextStore == CreateWallet \/ ImportWallet \/ SelectWallet \/ DeleteWallet

SpecStore == InitStore /\ [][NextStore]_vars

(***************************************************************************)
(* types.ts: sendTokens, from the command to the broadcast. The steps are  *)
(* the stretches between two awaits: the prompts, rpc.getUTXOs and         *)
(* rpc.broadcastTransaction.                                               *)
(***************************************************************************)
\* a number that parseFloat returns: a fraction n / d, or NaN
NotANumber == [n |-> 0, d |-> 0]

isNaN(q) == q.d = 0

RECURSIVE PowerOfTen(_)
PowerOfTen(k) == IF k = 0 THEN 1 ELSE 10 * PowerOfTen(k - 1)

\* the first position from i on that holds no decimal digit
RECURSIVE DigitsEnd(_, _)
DigitsEnd(str, i) ==
    IF i > Len(str) \/ DigitVal(str[i]) = -1 THEN i ELSE DigitsEnd(str, i + 1)

\* the number with the digits of mantissa, places of them behind the point
Scaled(negative, mantissa, places) ==
    [n |-> (IF negative THEN -1 ELSE 1) * ParseDigits(mantissa, 1, 0)
               * (IF places < 0 THEN PowerOfTen(-places) ELSE 1),
     d |-> IF places < 0 THEN 1 ELSE PowerOfTen(places)]

\* the exponent behind position at, when an 'e' with digits stands there
ExponentAt(s, at) ==
    LET signed == at + 1 <= Len(s) /\ s[at + 1] \in {"-", "+"}
        from == IF signed THEN at + 2 ELSE at + 1
    IN  IF at > Len(s) \/ s[at] \notin {"e", "E"} \/ DigitsEnd(s, from) = from THEN 0
        ELSE (IF signed /\ s[at + 1] = "-" THEN -1 ELSE 1)
                 * ParseDigits(SubSeq(s, from, DigitsEnd(s, from) - 1), 1, 0)

\* parseFloat(str): sign, digits, point, digits and exponent at the front
\* of the string, whatever follows
parseFloat(str) ==
    LET s == TrimStart(str)
        signed == s # <<>> /\ s[1] \in {"-", "+"}
        from == IF signed THEN 2 ELSE 1
        point == DigitsEnd(s, from)
        dotted == point <= Len(s) /\ s[point] = "."
        end == IF dotted THEN DigitsEnd(s, point + 1) ELSE point
        whole == SubSeq(s, from, point - 1)
        fraction == IF dotted THEN SubSeq(s, point + 1, end - 1) ELSE <<>>
    IN  IF whole \o fraction = <<>> THEN NotANumber
        ELSE Scaled(signed /\ s[1] = "-", whole \o fraction,
                    Len(fraction) - ExponentAt(s, end))

\* (amount.split('.')[1] || '').length
RECURSIVE UpToPoint(_)
UpToPoint(str) ==
    IF str = <<>> \/ Head(str) = "." THEN <<>> ELSE <<Head(str)>> \o UpToPoint(Tail(str))

DecimalPlaces(amount) ==
    IF Len(UpToPoint(amount)) = Len(amount) THEN 0
    ELSE Len(UpToPoint(SubSeq(amount, Len(UpToPoint(amount)) + 2, Len(amount))))

MaxAmount == 21000000

\* the four checks of the amount of sendTokens
AmountAccepted(amount) ==
    /\ ~isNaN(parseFloat(amount))
    /\ parseFloat(amount).n > 0
    /\ ~ \/ parseFloat(amount).n \div parseFloat(amount).d > MaxAmount
         \/ /\ parseFloat(amount).n \div parseFloat(amount).d = MaxAmount
            /\ parseFloat(amount).n % parseFloat(amount).d > 0
    /\ DecimalPlaces(amount) <= 8

\* every answer confirms
AnyAnswer(confirm) == TRUE

\* confirm.toLowerCase() is 'yes' or 'y'
Confirmed(confirm) == toLowerCase(confirm) \in {<<"y", "e", "s">>, <<"y">>}

\* what is typed at the prompt for the recipient
Recipients ==
    {OtherAddress, OwnAddress, generateAddress(derivePublicKeyLegacy(KeyHex(2)))}
        \cup BadAddresses

\* what is typed at the prompt for the amount
TypedAmounts ==
    { <<"0", ".", "0", "0", "0", "2">>, <<"0", ".", "0", "0", "0", "5">>,
      <<"0", ".", "0", "0", "0", "1", "x">>, <<"1", "e", "-", "9">>,
      <<"a", "b", "c">>, <<>>, <<"0">>, <<"-", "1">>,
      <<"2", "2", "0", "0", "0", "0", "0", "0">>,
      <<"0", ".", "0", "0", "0", "0", "0", "0", "0", "0", "5">> }

\* what rpc.getUTXOs answers: an error, no output at all, one or two outputs
\* of the wallet, with and without a locking script
FetchedUtxos ==
    { Throw(ErrorWith("Failed to get UTXOs")), Ok(<<>>), Ok(<<UtxoPool[1]>>),
      Ok(<<UtxoPool[3]>>), Ok(<<UtxoPool[2], UtxoPool[1]>>) }

\* the command loop with wallet 1 selected, or without a wallet
InitSend ==
    /\ call = [op |-> "none"]
    /\ ret = Ok(JsNull)
    /\ wallet \in {NoWallet, WalletOf(KeyHex(1))}
    /\ utxos = <<>>
    /\ args = JsNull
    /\ txData = JsNull
    /\ txHex = JsNull
    /\ signedTxHex = JsNull
    /\ ncalls = 0
    /\ heap = <<>>
    /\ tasks = <<>>
    /\ sessionPassword = JsNull
    /\ cli = [pc |-> "loop", confirm |-> JsNull, broadcasts |-> <<>>]

\* the state of a command that has ended for the reason given
Ended(reason) == [cli EXCEPT !.pc = "loop", !.ended = reason]

\* /send, up to the prompt for the recipient
SendTokens ==
    /\ cli.pc = "loop"
    /\ cli' = IF wallet = NoWallet
              THEN [pc |-> "loop", confirm |-> JsNull, broadcasts |-> <<>>,
                    ended |-> "No wallet selected"]
              ELSE [pc |-> "recipient", confirm |-> JsNull, broadcasts |-> <<>>,
                    ended |-> "none"]
    /\ args' = JsNull
    /\ utxos' = <<>>
    /\ txData' = JsNull
    /\ txHex' = JsNull
    /\ signedTxHex' = JsNull
    /\ UNCHANGED <<call, ret, wallet, ncalls, heap, tasks, sessionPassword>>

\* from the recipient to the prompt for the amount
AnswerRecipient ==
    /\ cli.pc = "recipient"
    /\ \E toAddress \in Recipients :
        /\ args' = [to |-> toAddress]
        /\ cli' = IF ~isValidAddress(toAddress).val THEN Ended("Invalid recipient address")
                  ELSE [cli EXCEPT !.pc = "amount"]
    /\ UNCHANGED <<call, ret, wallet, utxos, txData, txHex, signedTxHex, ncalls,
                   heap, tasks, sessionPassword>>

\* from the amount to the call of rpc.getUTXOs
AnswerAmount ==
    /\ cli.pc = "amount"
    /\ \E amount \in TypedAmounts :
        /\ args' = [to |-> args.to, amount |-> amount]
        /\ cli' = IF ~AmountAccepted(amount) THEN Ended("Invalid amount")
                  ELSE IF args.to = wallet.address THEN Ended("Cannot send to yourself")
                  ELSE [cli EXCEPT !.pc = "getUTXOs"]
    /\ UNCHANGED <<call, ret, wallet, utxos, txData, txHex, signedTxHex, ncalls,
                   heap, tasks, sessionPassword>>

\* from the answer of rpc.getUTXOs to the prompt for the confirmation: the
\* transaction is built and shown
UtxosFetched ==
    /\ cli.pc = "getUTXOs"
    /\ \E fetched \in FetchedUtxos :
        IF ~fetched.ok \/ fetched.val = <<>>
        THEN /\ cli' = Ended("No UTXOs")
             /\ UNCHANGED <<utxos, txData>>
        ELSE /\ utxos' = UtxosAfterSort(fetched.val)
             /\ txData' = buildTransaction(wallet.address, args.to, parseFloat(args.amount),
                                           fetched.val, wallet.address)
             /\ cli' = IF txData'.ok THEN [cli EXCEPT !.pc = "confirm"]
                       ELSE Ended("buildTransaction failed")
    /\ UNCHANGED <<call, ret, wallet, args, txHex, signedTxHex, ncalls,
                   heap, tasks, sessionPassword>>

\* from the answer to the confirmation to the call of
\* rpc.broadcastTransaction
AnswerConfirm ==
    /\ cli.pc = "confirm"
    /\ \E confirm \in Answers :
        IF ~Confirmed(confirm)
        THEN /\ cli' = [Ended("Transaction cancelled") EXCEPT !.confirm = Str(confirm)]
             /\ UNCHANGED <<txHex, signedTxHex>>
        ELSE /\ txHex' = createTransactionHex(txData.val.inputs, txData.val.outputs, Undefined)
             /\ signedTxHex' = IF txHex'.ok
                               THEN signTransaction(txHex'.val, wallet.privateKey,
                                                    txData.val.inputs, Arr(utxos))
                               ELSE txHex'
             /\ cli' = IF signedTxHex'.ok
                       THEN [cli EXCEPT !.pc = "broadcastTransaction",
                                        !.confirm = Str(confirm),
                                        !.broadcasts = Append(@, signedTxHex'.val)]
                       ELSE [Ended("signing failed") EXCEPT !.confirm = Str(confirm)]
    /\ UNCHANGED <<call, ret, wallet, utxos, args, txData, ncalls,
                   heap, tasks, sessionPassword>>

\* the answer of rpc.broadcastTransaction: a txid or an error
Broadcasted ==
    /\ cli.pc = "broadcastTransaction"
    /\ \E sent \in BOOLEAN :
        cli' = Ended(IF sent THEN "Transaction sent" ELSE "Failed to broadcast transaction")
    /\ UNCHANGED <<call, ret, wallet, utxos, args, txData, txHex, signedTxHex, ncalls,
                   heap, tasks, sessionPassword>>

NextSend ==
    \/ SendTokens
    \/ AnswerRecipient
    \/ AnswerAmount
    \/ UtxosFetched
    \/ AnswerConfirm
    \/ Broadcasted

SpecSend == InitSend /\ [][NextSend]_vars

(***************************************************************************)
(* Properties                                                              *)
(***************************************************************************)
IsBuild == call.op = "buildTransaction"

\* the addresses that occur as arguments, and the valid ones among them
KnownAddresses == {OwnAddress, OtherAddress} \cup BadAddresses

ValidAddresses == {a \in KnownAddresses : isValidAddress(a) = Ok(TRUE)}

AddressesValid == {args.from, args.to, args.change} \subseteq ValidAddresses

\* the amount in minor units
MinorUnits == Floor(Times(args.amount, COIN_VALUE))

\* the fee for k inputs and two outputs, from the size rounded up to whole
\* kilobytes
ExpectedFee(k) == Max(25000, ((148 * k + 34 * 2 + 10 + 999) \div 1000) * 100)

\* the sum of the values of the caller's UTXOs that the inputs refer to
RECURSIVE SumReferred(_, _)
SumReferred(records, inputs) ==
    IF records = <<>> THEN 0
    ELSE (IF \E i \in 1..Len(inputs) : /\ inputs[i].txid = Head(records).txid
                                       /\ inputs[i].vout = Head(records).vout
          THEN Head(records).value ELSE 0) + SumReferred(Tail(records), inputs)

SelectedTotal(inputs) == SumReferred(utxos, inputs)

\* the number of inputs of a signed or unsigned transaction that carry a
\* script, read off its hexadecimal form
RECURSIVE SignedInputs(_, _, _)
SignedInputs(hex, pos, n) ==
    IF n = 0 THEN 0
    ELSE LET len == ParseInt16(JsSlice(hex, pos + 72, pos + 74))
         IN  (IF len > 0 THEN 1 ELSE 0) + SignedInputs(hex, pos + 72 + 2 + 2 * len + 8, n - 1)

\* the key derives, utxos[0] has a pay-to-pubkey-hash script, and the hash in
\* it is the hash of neither public key of the private key
NeitherKeyMatches ==
    /\ derivePublicKey(call.privateKey).ok
    /\ Truthy(ScriptPubKeyAt(call.utxos, 0))
    /\ LET script == ScriptPubKeyAt(call.utxos, 0).v
       IN  /\ StartsWith(script, <<"7", "6", "a", "9", "1", "4">>)
           /\ Len(script) = 50
           /\ JsSlice(script, 6, 46) # toHex(hash160(fromHex(derivePublicKey(call.privateKey).val)))
           /\ JsSlice(script, 6, 46) # toHex(hash160(fromHex(derivePublicKeyLegacy(call.privateKey))))

\* C1: signTransaction either throws or returns a transaction in which every
\* input carries a signature; it returns neither a transaction with only some
\* inputs signed nor the unsigned transaction it was given.
C1_SignAbortsAsAWhole ==
    call.op = "signTransaction" /\ ret.ok =>
        /\ ret.val # txHex.val
        /\ SignedInputs(ret.val, 10, Len(txData.val.inputs)) = Len(txData.val.inputs)

\* C2: with valid addresses, buildTransaction throws InsufficientFundsError
\* with required = amount in minor units + fee and available = the sum of all
\* supplied values exactly when that sum is below amount + fee; a result is
\* returned only when the selected total covers amount + fee.
C2_InsufficientFunds ==
    IsBuild /\ AddressesValid =>
        IF SumValues(utxos) < MinorUnits + ExpectedFee(Len(utxos))
        THEN ret = Throw([name |-> "InsufficientFundsError",
                          required |-> MinorUnits + ExpectedFee(Len(utxos)),
                          available |-> SumValues(utxos)])
        ELSE /\ ret.ok
             /\ SelectedTotal(ret.val.inputs) >= MinorUnits + ret.val.fee

C2_Witness ==
    /\ IsBuild
    /\ ~ret.ok
    /\ ret.err.name = "InsufficientFundsError"
    /\ Len(utxos) = 2
    /\ ret.err.available > 0

\* C3: when the hash in the locking script of utxos[0] is the hash of neither
\* public key of the private key, signTransaction fails with a KeyMismatch
\* error and returns no transaction.
C3_KeyMismatchIsFatal ==
    call.op = "signTransaction" /\ NeitherKeyMatches =>
        /\ ~ret.ok
        /\ ret.err.name = "KeyMismatch"

\* C4: a successful buildTransaction returns the spend output (toAddress,
\* amount in minor units) first, followed by the change output (changeAddress,
\* total - amount - fee) exactly when that change is positive; there is no
\* output of value zero after the first and there are at most two outputs.
C4_Outputs ==
    IsBuild /\ ret.ok =>
        LET spend == [address |-> args.to, value |-> MinorUnits]
            change == SelectedTotal(ret.val.inputs) - MinorUnits - ret.val.fee
        IN  /\ ret.val.outputs =
                   IF change > 0
                   THEN <<spend, [address |-> args.change, value |-> change]>>
                   ELSE <<spend>>
            /\ Len(ret.val.outputs) <= 2
            /\ \A i \in 2..Len(ret.val.outputs) : ret.val.outputs[i].value > 0

C4_Witness ==
    /\ IsBuild
    /\ ret.ok
    /\ Len(ret.val.outputs) = 1
    /\ SelectedTotal(ret.val.inputs) = MinorUnits + ret.val.fee
    /\ Len(ret.val.inputs) = 2

\* C5: the fee buildTransaction returns for k inputs is
\* max(25000, ceil((148k + 78) / 1000) * 100), which is estimateFee(k, 2), and
\* is at least 25000; the fee it computes from k agrees with estimateFee(k, 2)
\* for every k, also where the size term exceeds the minimum.
C5_FeeFormula ==
    /\ IsBuild /\ ret.ok =>
           /\ ret.val.fee = ExpectedFee(Len(ret.val.inputs))
           /\ ret.val.fee = estimateFee(Len(ret.val.inputs), 2)
           /\ ret.val.fee >= 25000
    /\ call.op = "estimateFee" /\ call.outputCount = 2 =>
           /\ ret.val = ExpectedFee(call.inputCount)
           /\ FinalFee(call.inputCount) = ret.val
           /\ ret.val >= 25000

C5_Witness ==
    /\ IsBuild
    /\ ret.ok
    /\ Len(ret.val.inputs) = 2
    /\ Len(ret.val.outputs) = 1

C7_UtxosUnchanged == [][utxos' = utxos]_vars

C7_Witness ==
    /\ IsBuild
    /\ ret.ok
    /\ SortByConfirmations(utxos) # utxos

\* an address in the sense of C8, stated on the decoded bytes
RightBytes(bytes) ==
    /\ Len(bytes) >= 4
    /\ SubSeq(bytes, Len(bytes) - 3, Len(bytes))
           = SubSeq(doubleSha256(SubSeq(bytes, 1, Len(bytes) - 4)), 1, 4)
    /\ Len(bytes) - 4 = 21
    /\ bytes[1] = 65

RightAddress(a) ==
    /\ a.t = "string"
    /\ a.v # <<>>
    /\ a.v[1] = "T"
    /\ \A i \in 1..Len(a.v) : \E j \in 1..58 : Alphabet[j] = a.v[i]
    /\ RightBytes(fromBase58(a.v).val)

\* C8: isValidAddress never throws, and returns true exactly for a non-empty
\* string that begins with 'T' and base58-decodes to 21 payload bytes, the
\* first one 0x41, followed by the 4-byte checksum of the payload.
C8_IsValidAddress ==
    call.op = "isValidAddress" => ret = Ok(RightAddress(call.arg))

C8_Witness ==
    /\ call.op = "isValidAddress"
    /\ call.arg = Str(base58check(<<65>> \o Rep(0, 113)))
    /\ Head(call.arg.v) = "T"
    /\ ret = Ok(FALSE)

\* some address of the call is not valid
SomeInvalid(addresses) ==
    /\ addresses \subseteq KnownAddresses
    /\ \E a \in addresses : a \notin ValidAddresses

\* C9: validateAddress returns a valid address unchanged and throws
\* InvalidAddressError otherwise; addressToHash160 throws InvalidAddressError
\* for an address that is not valid; buildTransaction and createTransactionHex
\* throw InvalidAddressError when one of their addresses is not valid.
C9_InvalidAddressThrows ==
    /\ call.op = "validateAddress" =>
           ret = IF SomeInvalid({call.arg}) THEN Throw([name |-> "InvalidAddressError"])
                 ELSE Ok(call.arg)
    /\ call.op = "addressToHash160" /\ SomeInvalid({call.arg}) =>
           ret = Throw([name |-> "InvalidAddressError"])
    /\ IsBuild /\ SomeInvalid({args.from, args.to, args.change}) =>
           ret = Throw([name |-> "InvalidAddressError"])
    /\ call.op = "createTransactionHex"
           /\ SomeInvalid({call.outputs[i].address : i \in 1..Len(call.outputs)}) =>
           ret = Throw([name |-> "InvalidAddressError"])

C9_Witness ==
    /\ call.op = "createTransactionHex"
    /\ Len(call.outputs) = 2
    /\ call.outputs[2].address = WrongVersionAddress
    /\ ~ret.ok

\* C10: the address generated from a public key is accepted by
\* isValidAddress and decodes to the version byte followed by hash160 of the
\* key; addressToHash160 of the wallet's address is hash160 of its key.
C10_AddressRoundTrip ==
    /\ call.op = "generateAddress" =>
           /\ isValidAddress(ret.val) = Ok(TRUE)
           /\ base58checkDecode(ret.val.v) = Ok(<<65>> \o hash160(fromHex(call.arg)))
    /\ call.op = "addressToHash160" /\ wallet # NoWallet /\ call.arg = wallet.address =>
           /\ ret = Ok(hash160(fromHex(wallet.publicKey)))
           /\ Len(ret.val) = 20

C10_Witness ==
    /\ call.op = "addressToHash160"
    /\ wallet # NoWallet
    /\ call.arg = wallet.address
    /\ wallet.publicKey = derivePublicKeyLegacy(KeyHex(1))
    /\ ret.ok

\* C11: fromBase58(toBase58(b)) is b for every buffer b; the empty buffer
\* encodes to the empty string, and the encoded string has exactly one
\* leading '1' for each leading zero byte of b.
C11_Base58RoundTrip ==
    /\ call.op = "toBase58" =>
           /\ call.arg = <<>> => ret.val = <<>>
           /\ LeadingCount(ret.val, "1") = LeadingCount(call.arg, 0)
    /\ call.op = "fromBase58" /\ call.encoded => ret = Ok(call.data)

\* the decoded bytes end with the checksum of the bytes before it
Checksummed(bytes) ==
    /\ Len(bytes) >= 4
    /\ SubSeq(bytes, Len(bytes) - 3, Len(bytes))
           = SubSeq(doubleSha256(SubSeq(bytes, 1, Len(bytes) - 4)), 1, 4)

\* C12: base58checkDecode(base58check(b)) is b for every buffer b, and
\* base58checkDecode throws for every string whose decoded last 4 bytes are not
\* the first 4 bytes of doubleSha256 of the bytes before them, strings that
\* decode to fewer than 4 bytes included.
C12_Base58CheckRoundTrip ==
    call.op = "base58checkDecode" =>
        /\ call.encoded => ret = Ok(call.data)
        /\ fromBase58(call.arg).ok /\ ~Checksummed(fromBase58(call.arg).val) => ~ret.ok

C12_Witness ==
    /\ call.op = "base58checkDecode"
    /\ ~call.encoded
    /\ call.data = <<0, 255>>
    /\ fromBase58(call.arg).ok
    /\ Len(fromBase58(call.arg).val) >= 4
    /\ ~ret.ok

\* C13: importFromMnemonic throws a WalletError for every phrase that fails
\* the validation, before any seed or key is derived, and derives a wallet
\* only for a phrase that passes it.
C13_InvalidMnemonicRejected ==
    call.op = "importFromMnemonic" =>
        /\ ~validateMnemonic(call.arg) =>
               /\ ret = Throw(Error("WalletError"))
               /\ call.pc = "done"
               /\ ~call.derived
        /\ call.derived => validateMnemonic(call.arg) /\ ret.ok

C13_Witness ==
    /\ call.op = "importFromMnemonic"
    /\ Len(call.arg) = EntropyLen + 1
    /\ \A i \in 1..Len(call.arg) : WordCode(call.arg[i]) <= WordListSize
    /\ ~validateMnemonic(call.arg)
    /\ ret = Throw(Error("WalletError"))

\* a string of exactly 64 hexadecimal characters that encodes a scalar k
\* with 1 <= k < n
Canonical(privateKeyHex) ==
    /\ Truthy(privateKeyHex)
    /\ Len(privateKeyHex.v) = 64
    /\ IsHex(privateKeyHex.v)
    /\ BigCmp(Norm(fromHex(privateKeyHex.v)), <<>>) > 0
    /\ BigCmp(Norm(fromHex(privateKeyHex.v)), curveOrder) < 0

\* C14: importFromPrivateKey throws a WalletError for every input that is
\* not exactly 64 hexadecimal characters encoding a scalar k with
\* 1 <= k < n: a wrong length, a character that is no hexadecimal digit,
\* zero, a scalar at or above the curve order.
C14_OnlyCanonicalKeys ==
    call.op = "importFromPrivateKey" /\ ~Canonical(call.arg)
        => ret = Throw(Error("WalletError"))

\* the inputs that importFromPrivateKey does reject: a wrong length, zero
\* and the curve order itself
C14_Rejected ==
    /\ call.op = "importFromPrivateKey"
    /\ \/ ~Truthy(call.arg)
       \/ Len(call.arg.v) # 64
       \/ ReduceModN(Norm(fromHex(call.arg.v))) = <<>>
    => ret = Throw(Error("WalletError"))

\* a scalar above the curve order is imported
C14_AboveOrderImported ==
    /\ call.op = "importFromPrivateKey"
    /\ call.arg = Str(AboveOrder)
    /\ ret.ok
    /\ ret.val.privateKey = AboveOrder
    /\ ret.val.publicKey = derivePublicKey(toHex(Rep(0, 31) \o <<1>>)).val

\* C15: for every wallet w that generateWallet returned,
\* importFromMnemonic(w.mnemonic) returns the same private key, public key
\* and address, importFromPrivateKey(w.privateKey) returns the same public
\* key and address, and derivePublicKey and generateAddress return the same
\* value when they are called again.
C15_SameKeysAgain ==
    wallet # NoWallet =>
        /\ call.op = "importFromMnemonic" /\ call.arg = wallet.mnemonic /\ call.pc = "done"
               => ret = Ok(wallet)
        /\ call.op = "importFromPrivateKey" /\ call.arg = Str(wallet.privateKey)
               => ret = Ok([privateKey |-> wallet.privateKey,
                            publicKey |-> wallet.publicKey,
                            address |-> wallet.address])
        /\ call.op = "derivePublicKey" /\ call.arg = wallet.privateKey
               => ret = Ok(wallet.publicKey)
        /\ call.op = "generateAddress" /\ call.arg = wallet.publicKey
               => ret = Ok(wallet.address)

C15_Witness ==
    /\ wallet # NoWallet
    /\ call.op = "importFromMnemonic"
    /\ call.arg = wallet.mnemonic
    /\ call.derived
    /\ ret.ok
    /\ ret.val.address = wallet.address

\* the number in the DER integer that starts at character pos (from 0) of
\* der: '02', the length in bytes, the bytes
DerNumber(der, pos) ==
    Norm(fromHex(JsSlice(der, pos + 4, pos + 4 + 2 * ParseInt16(JsSlice(der, pos + 2, pos + 4)))))

\* the position behind the DER integer that starts at pos
DerNext(der, pos) == pos + 4 + 2 * ParseInt16(JsSlice(der, pos + 2, pos + 4))

\* C16: for every (r, s) with 1 <= s < n that is passed to
\* encodeDERSignature, in the loop over the inputs and in the fallback, the
\* s of the encoded signature is s when s <= floor(n / 2) and n - s
\* otherwise; the r is r.
C16_LowS ==
    call.op = "encodeDERSignature" =>
        /\ ret.ok
        /\ JsSlice(ret.val, 4, 6) = <<"0", "2">>
        /\ DerNumber(ret.val, 4) = call.r
        /\ JsSlice(ret.val, DerNext(ret.val, 4), DerNext(ret.val, 4) + 2) = <<"0", "2">>
        /\ DerNumber(ret.val, DerNext(ret.val, 4))
               = IF BigCmp(call.s, HalfOrder) <= 0 THEN call.s
                 ELSE BigSub(curveOrder, call.s)
        /\ DerNext(ret.val, DerNext(ret.val, 4)) = Len(ret.val) - 2
        /\ BigCmp(DerNumber(ret.val, DerNext(ret.val, 4)), HalfOrder) <= 0

C16_Witness ==
    /\ call.op = "encodeDERSignature"
    /\ call.path = "fallback"
    /\ call.s = BigMulAdd(HalfOrder, 1, 1)
    /\ ret.ok
    /\ DerNumber(ret.val, DerNext(ret.val, 4)) = HalfOrder

\* the scriptSig of input i (counted from 1) of a signed transaction, read
\* off its hexadecimal form from the input at pos
RECURSIVE ScriptSigAt(_, _, _)
ScriptSigAt(hex, pos, i) ==
    IF i = 1
    THEN JsSlice(hex, pos + 74, pos + 74 + 2 * ParseInt16(JsSlice(hex, pos + 72, pos + 74)))
    ELSE ScriptSigAt(hex, pos + 74 + 2 * ParseInt16(JsSlice(hex, pos + 72, pos + 74)) + 8,
                     i - 1)

\* the two pushes of a scriptSig
PushedSignature(scriptSig) ==
    JsSlice(scriptSig, 2, 2 + 2 * ParseInt16(JsSlice(scriptSig, 0, 2)))

PushedKey(scriptSig) ==
    JsSliceFrom(scriptSig, 2 + 2 * ParseInt16(JsSlice(scriptSig, 0, 2)) + 2)

\* the UTXO that an input spends: the record with its txid and vout
Spent(input) ==
    CHOOSE i \in 1..Len(utxos) :
        utxos[i].txid = input.txid /\ utxos[i].vout = input.vout

\* signTransaction was called with the UTXO array and signed every input in
\* its loop
SignedInLoop ==
    /\ call.op = "signTransaction"
    /\ call.utxos = Arr(utxos)
    /\ SignTry(txHex.val, call.privateKey, txData.val.inputs, call.utxos).ok
    /\ ret.ok

\* the signature over the preimage of input i that carries the locking
\* script of the output that input i spends
SignatureOverSpent(i) ==
    DerSig(sign(keyFromPrivate(call.privateKey),
                doubleSha256(fromHex(
                    Preimage(txHex.val, txData.val.inputs, i,
                             utxos[Spent(txData.val.inputs[i])].scriptPubKey.v)))))

\* C19: for every input i, the script in input i's field of the preimage
\* that is signed is the locking script of the UTXO that input i spends, in
\* every order of the UTXO array, also when the inputs come from
\* buildTransaction and the array it was given is passed on.
C19_PreimageOfSpentOutput ==
    SignedInLoop =>
        \A i \in 1..Len(txData.val.inputs) :
            Truthy(utxos[Spent(txData.val.inputs[i])].scriptPubKey) =>
                PushedSignature(ScriptSigAt(ret.val, 10, i)) = SignatureOverSpent(i)

\* the inputs are in the order of the UTXO array
InArrayOrder == \A i \in 1..Len(txData.val.inputs) : Spent(txData.val.inputs[i]) = i

\* when the inputs are in the order of the array, the preimages carry the
\* scripts of the spent outputs
C19_InArrayOrder ==
    SignedInLoop /\ InArrayOrder =>
        \A i \in 1..Len(txData.val.inputs) :
            PushedSignature(ScriptSigAt(ret.val, 10, i)) = SignatureOverSpent(i)

\* the inputs are not in the order of the array, and the first signature is
\* over another script than that of the spent output
C19_Reordered ==
    /\ SignedInLoop
    /\ Len(txData.val.inputs) = 2
    /\ ~InArrayOrder
    /\ PushedSignature(ScriptSigAt(ret.val, 10, 1)) # SignatureOverSpent(1)

\* the hash in a pay-to-pubkey-hash script
HashInScript(script) == JsSlice(script, 6, 46)

HashOfKey(publicKeyHex) == toHex(hash160(fromHex(publicKeyHex)))

\* C20: for every input i of a transaction that signTransaction returned,
\* the public key pushed in input i's script is the variant, standard or
\* legacy, whose HASH160 is the hash in the locking script of the output
\* that input i spends, whenever one of the two has that hash.
C20_KeyOfSpentOutput ==
    SignedInLoop =>
        \A i \in 1..Len(txData.val.inputs) :
            /\ Truthy(utxos[Spent(txData.val.inputs[i])].scriptPubKey)
            /\ \/ HashOfKey(derivePublicKey(call.privateKey).val)
                      = HashInScript(utxos[Spent(txData.val.inputs[i])].scriptPubKey.v)
               \/ HashOfKey(derivePublicKeyLegacy(call.privateKey))
                      = HashInScript(utxos[Spent(txData.val.inputs[i])].scriptPubKey.v)
            => HashOfKey(PushedKey(ScriptSigAt(ret.val, 10, i)))
                   = HashInScript(utxos[Spent(txData.val.inputs[i])].scriptPubKey.v)

\* with one input that spends utxos[0], the pushed key is the matching one
C20_FirstOfArray ==
    SignedInLoop /\ Len(txData.val.inputs) = 1 /\ Spent(txData.val.inputs[1]) = 1
    /\ NeitherKeyMatches = FALSE
        => HashOfKey(PushedKey(ScriptSigAt(ret.val, 10, 1)))
               = HashInScript(utxos[1].scriptPubKey.v)

\* the second input spends an output that pays the standard key and pushes
\* the legacy key, which the script of utxos[0] pays
C20_StandardSpentWithLegacyKey ==
    /\ SignedInLoop
    /\ Len(txData.val.inputs) = 2
    /\ InArrayOrder
    /\ HashOfKey(derivePublicKey(call.privateKey).val) = HashInScript(utxos[2].scriptPubKey.v)
    /\ PushedKey(ScriptSigAt(ret.val, 10, 2)) = derivePublicKeyLegacy(call.privateKey)

\* one of the passwords entered decrypts the wallet file
DecryptingEntered ==
    \E i \in 1..Len(cli.entered) : loadWallets(cli.file, Str(cli.entered[i])).ok

\* C18: with a wallet file that is encrypted at startup, the command loop is
\* entered, and a command processed, only after a password that decrypts
\* the file was entered; unlockWallet takes at most three attempts and
\* leaves sessionPassword null after each failed one; after three failed
\* attempts the program has exited with status 1 and processed no command.
C18_UnlockGate ==
    cli.pc # "none" /\ isWalletEncrypted(cli.file) =>
        /\ cli.pc = "loop" \/ cli.commands > 0 =>
               /\ DecryptingEntered
               /\ cli.entered[Len(cli.entered)] = cli.file.password
        /\ cli.pc = "loop" => sessionPassword = Str(cli.file.password)
        /\ Len(cli.entered) <= 3
        /\ cli.pc = "unlockWallet" => sessionPassword = JsNull
        /\ Len(cli.entered) = 3 /\ ~DecryptingEntered =>
               /\ cli.pc = "exited"
               /\ cli.status = 1
               /\ cli.commands = 0

\* once the program has exited it stays so, and commands are only processed
\* from the command loop
C18_GateSteps ==
    [][/\ cli.pc = "exited" => cli' = cli
       /\ cli'.commands # cli.commands => cli.pc = "loop"]_vars

C18_Witness ==
    /\ cli.pc = "exited"
    /\ cli.file.kind = "encrypted"
    /\ Len(cli.entered) = 3
    /\ ~DecryptingEntered
    /\ cli.status = 1
    /\ sessionPassword = JsNull

\* what task t's calls return when they run alone, on the array it was given
AloneBuilt(t) ==
    buildTransaction(tasks[t].args.from, tasks[t].args.to, tasks[t].args.amount,
                     tasks[t].given, tasks[t].args.change)

AloneHex(t) ==
    createTransactionHex(AloneBuilt(t).val.inputs, AloneBuilt(t).val.outputs, Undefined)

AloneSigned(t) ==
    signTransaction(AloneHex(t).val, tasks[t].privateKey, AloneBuilt(t).val.inputs,
                    Arr(tasks[t].given))

\* C17: when the buildTransaction, createTransactionHex and signTransaction
\* calls of independent transactions, and the rounds of the signing loop,
\* are interleaved in any order, each call returns what it returns when it
\* runs alone, and no call changes the arguments or the results of another.
C17_NoInterference ==
    \A t \in 1..Len(tasks) :
        /\ heap[tasks[t].array] = tasks[t].given
        /\ tasks[t].txData # JsNull => tasks[t].txData = AloneBuilt(t)
        /\ tasks[t].txHex # JsNull => tasks[t].txHex = AloneHex(t)
        /\ tasks[t].signedTxHex # JsNull => tasks[t].signedTxHex = AloneSigned(t)

\* both tasks hold the same array, their steps were interleaved, and both
\* have their signed transactions
C17_Witness ==
    /\ Len(tasks) = 2
    /\ tasks[1].array = tasks[2].array
    /\ tasks[1].pc = "input" /\ tasks[1].i = 2
    /\ tasks[2].pc = "done"
    /\ tasks[2].signedTxHex # JsNull
    /\ tasks[2].signedTxHex = AloneSigned(2)
    /\ Len(tasks[2].txData.val.inputs) = 2

\* a transaction in hexadecimal form without the script fields of its n
\* inputs, from the input at pos on: txid, index and sequence of each input,
\* then all that follows the inputs
RECURSIVE WithoutScripts(_, _, _)
WithoutScripts(hex, pos, n) ==
    IF n = 0 THEN JsSliceFrom(hex, pos)
    ELSE JsSlice(hex, pos, pos + 72)
             \o JsSlice(hex, pos + 74 + 2 * ParseInt16(JsSlice(hex, pos + 72, pos + 74)),
                        pos + 82 + 2 * ParseInt16(JsSlice(hex, pos + 72, pos + 74)))
             \o WithoutScripts(hex, pos + 82 + 2 * ParseInt16(JsSlice(hex, pos + 72, pos + 74)),
                               n - 1)

PlaceOf(i) ==
    1 + Cardinality({j \in 1..Len(utxos) :
                        \/ utxos[j].confirmations < utxos[i].confirmations
                        \/ utxos[j].confirmations = utxos[i].confirmations /\ j < i})

\* the UTXO at place k
AtPlace(k) == utxos[CHOOSE i \in 1..Len(utxos) : PlaceOf(i) = k]

\* the total of the UTXOs at the first j places
RECURSIVE PlacesTotal(_)
PlacesTotal(j) == IF j = 0 THEN 0 ELSE AtPlace(j).value + PlacesTotal(j - 1)

C27_ValueConserved ==
    IsBuild /\ ret.ok =>
        SelectedTotal(ret.val.inputs) = SumValues(ret.val.outputs) + ret.val.fee

C27_Witness ==
    /\ IsBuild
    /\ ret.ok
    /\ Len(ret.val.outputs) = 2
    /\ Len(ret.val.inputs) = 2
    /\ ret.val.outputs[2].value > 0
    /\ SelectedTotal(ret.val.inputs) = SumValues(ret.val.outputs) + ret.val.fee

\* C28: buildTransaction returns no output whose value is zero or negative:
\* for every amount, zero, negative and below one minor unit included, and
\* every UTXO array, each returned output has a value above zero, or the
\* call fails.
C28_PositiveOutputs ==
    IsBuild /\ ret.ok =>
        \A i \in 1..Len(ret.val.outputs) : ret.val.outputs[i].value > 0

\* the change output, when there is one, has a value above zero, and the
\* first output has the amount in minor units
C28_ChangePositive ==
    IsBuild /\ ret.ok =>
        /\ ret.val.outputs[1].value = MinorUnits
        /\ \A i \in 2..Len(ret.val.outputs) : ret.val.outputs[i].value > 0

\* an amount below one minor unit gives an output of value zero
C28_ZeroOutput ==
    /\ IsBuild
    /\ ret.ok
    /\ args.amount = Amount(1)
    /\ ret.val.outputs[1].value = 0

\* the number n as that many bytes, the lowest first, in hexadecimal
RECURSIVE LittleEndian(_, _)
LittleEndian(n, bytes) ==
    IF bytes = 0 THEN <<>>
    ELSE <<HexDigits[((n % 256) \div 16) + 1], HexDigits[(n % 16) + 1]>>
             \o LittleEndian(n \div 256, bytes - 1)

\* C23: encodeVarInt follows the classic prefix scheme: n < 0xfd is the
\* single byte n; n <= 0xffff is 0xfd and n as 2 bytes little-endian;
\* n <= 0xffffffff is 0xfe and n as 4 bytes little-endian; the lengths are
\* 1, 3 and 5 bytes.
C23_VarIntLittleEndian ==
    call.op = "encodeVarInt" =>
        ret = Ok(IF call.arg < 253 THEN LittleEndian(call.arg, 1)
                 ELSE IF call.arg <= 65535 THEN <<"f", "d">> \o LittleEndian(call.arg, 2)
                 ELSE <<"f", "e">> \o LittleEndian(call.arg, 4))

\* the prefixes and the lengths are those of the scheme, and the bytes
\* behind the prefix are n with the highest byte first
C23_VarIntBigEndian ==
    call.op = "encodeVarInt" =>
        ret = Ok(IF call.arg < 253 THEN LittleEndian(call.arg, 1)
                 ELSE IF call.arg <= 65535
                 THEN <<"f", "d">> \o ReversePairs(LittleEndian(call.arg, 2))
                 ELSE <<"f", "e">> \o ReversePairs(LittleEndian(call.arg, 4)))

C23_OutOfOrder ==
    /\ call.op = "encodeVarInt"
    /\ call.arg = 253
    /\ ret = Ok(<<"f", "d", "0", "0", "f", "d">>)

\* the bytes of the length prefix of the scheme, for a count or a length
PrefixBytes(num) == IF num < 253 THEN 1 ELSE IF num <= 65535 THEN 3 ELSE 5

\* the bytes of the script of input i in the call (0 without a script)
ScriptBytes(scriptPubKeys, i) ==
    IF scriptPubKeys.t = "array" /\ scriptPubKeys.v[i].t = "string"
    THEN Len(scriptPubKeys.v[i].v) \div 2 ELSE 0

\* the characters of the inputs lo..hi: txid, vout, script field, sequence
RECURSIVE InputsChars(_, _, _)
InputsChars(scriptPubKeys, lo, hi) ==
    IF lo > hi THEN 0
    ELSE IF lo = hi
    THEN 64 + 8 + 2 * (PrefixBytes(ScriptBytes(scriptPubKeys, lo))
                           + ScriptBytes(scriptPubKeys, lo)) + 8
    ELSE InputsChars(scriptPubKeys, lo, (lo + hi) \div 2)
             + InputsChars(scriptPubKeys, ((lo + hi) \div 2) + 1, hi)

\* where the output count begins in the transaction of the call
OutputCountAt ==
    8 + 2 * PrefixBytes(Len(call.inputs))
      + InputsChars(call.scriptPubKeys, 1, Len(call.inputs))

\* C24: for a transaction serialised by createTransactionHex with n inputs,
\* with or without scripts of any length, findOutputsPositionInHex(hex, n)
\* is the position where the output count begins: the output count, the
\* outputs and the locktime are all that follows it.
C24_OutputsPositionFound ==
    call.op = "findOutputsPositionInHex" =>
        /\ ret = Ok(OutputCountAt)
        /\ JsSlice(call.hex, ret.val, ret.val + 2) = encodeVarInt(Len(call.outputs))
        /\ Len(call.hex) - ret.val = 2 + 68 * Len(call.outputs) + 8

\* found behind a script of 253 bytes and one of 300 bytes
C24_Witness ==
    /\ call.op = "findOutputsPositionInHex"
    /\ Len(call.inputs) = 2
    /\ call.scriptPubKeys = Arr(<<ScriptOf(253), ScriptOf(300)>>)
    /\ ret = Ok(10 + 2 * (80 + 6) + 2 * 553)

\* the hash an output to the address pays: the HASH160 of the key the
\* address was made of
HashPaid(address) ==
    IF address = OwnAddress THEN HashOfKey(derivePublicKey(KeyHex(1)).val)
    ELSE HashOfKey(derivePublicKey(KeyHex(2)).val)

\* input i of the call at position at of the hex: the txid with its bytes
\* in reverse order, vout as 4 bytes little-endian, a single zero byte and
\* the sequence as 4 bytes little-endian
InputLaidOut(hex, at, input) ==
    /\ \A b \in 0..31 :
          JsSlice(hex, at + 2 * b, at + 2 * b + 2) = JsSlice(input.txid, 62 - 2 * b, 64 - 2 * b)
    /\ JsSlice(hex, at + 64, at + 72) = LittleEndian(input.vout, 4)
    /\ JsSlice(hex, at + 72, at + 74) = <<"0", "0">>
    /\ JsSlice(hex, at + 74, at + 82)
           = toHex([k \in 1..4 |-> input.sequence[5 - k]])

\* output j at position at: the value as 8 bytes little-endian, the length
\* 25 and the script 76 a9 14 <hash> 88 ac
OutputLaidOut(hex, at, output) ==
    /\ JsSlice(hex, at, at + 16) = LittleEndian(output.value, 8)
    /\ JsSlice(hex, at + 16, at + 18) = <<"1", "9">>
    /\ JsSlice(hex, at + 18, at + 24) = <<"7", "6", "a", "9", "1", "4">>
    /\ JsSlice(hex, at + 24, at + 64) = HashPaid(output.address)
    /\ JsSlice(hex, at + 64, at + 68) = <<"8", "8", "a", "c">>

\* C25: createTransactionHex without locking scripts emits the version
\* 01000000, the input count, for each input the reversed txid, vout as 4
\* bytes little-endian, one zero byte and the sequence as 4 bytes
\* little-endian, the output count, for each output the value as 8 bytes
\* little-endian and the 25-byte script with its length, and 4 zero bytes
\* of locktime: 10 + 41 n + 34 m bytes for n inputs and m outputs below 253.
C25_UnsignedLayout ==
    call.op = "createTransactionHex" /\ call.scriptPubKeys = Undefined =>
        LET n == Len(call.inputs)
            m == Len(call.outputs)
            first == 8 + 2 * PrefixBytes(n)
        IN  /\ ret.ok
            /\ n < 253 => Len(ret.val) = 2 * (10 + 41 * n + 34 * m)
            /\ JsSlice(ret.val, 0, 8) = <<"0", "1", "0", "0", "0", "0", "0", "0">>
            /\ JsSlice(ret.val, 8, first) = encodeVarInt(n)
            /\ \A i \in 1..n : InputLaidOut(ret.val, first + 82 * (i - 1), call.inputs[i])
            /\ JsSlice(ret.val, first + 82 * n, first + 82 * n + 2) = LittleEndian(m, 1)
            /\ \A j \in 1..m :
                  OutputLaidOut(ret.val, first + 82 * n + 2 + 68 * (j - 1), call.outputs[j])
            /\ JsSliceFrom(ret.val, first + 82 * n + 2 + 68 * m) = Rep("0", 8)

\* two inputs and two outputs without locking scripts: 160 bytes
C25_Witness ==
    /\ call.op = "createTransactionHex"
    /\ call.scriptPubKeys = Undefined
    /\ Len(call.inputs) = 2
    /\ Len(call.outputs) = 2
    /\ ret.ok
    /\ Len(ret.val) = 320

\* the bytes of the DER integer that starts at character pos of der
DerBytes(der, pos) == fromHex(JsSlice(der, pos + 4, DerNext(der, pos)))

\* the shortest two's complement form of a positive number given by its
\* bytes without leading zeros: one zero byte in front exactly when the
\* first byte is 0x80 or more
MinimalBytes(x) == IF x[1] >= 128 THEN <<0>> \o x ELSE x

\* the s that is encoded for the s of the call
EncodedS == IF BigCmp(call.s, HalfOrder) <= 0 THEN call.s ELSE BigSub(curveOrder, call.s)

\* C26: for every r and s in 1..n-1, encodeDERSignature returns the minimal
\* DER form: each INTEGER holds its number without leading zero bytes, with
\* a single 0x00 in front exactly when the first remaining byte is 0x80 or
\* more, its length byte is the number of its bytes, and the length of the
\* SEQUENCE is 4 + len(r) + len(s).
C26_MinimalDer ==
    call.op = "encodeDERSignature" =>
        LET der == SubSeq(ret.val, 1, Len(ret.val) - 2)
            sAt == DerNext(der, 4)
        IN  /\ JsSlice(der, 0, 2) = <<"3", "0">>
            /\ JsSlice(der, 4, 6) = <<"0", "2">>
            /\ DerBytes(der, 4) = MinimalBytes(call.r)
            /\ ParseInt16(JsSlice(der, 6, 8)) = Len(MinimalBytes(call.r))
            /\ JsSlice(der, sAt, sAt + 2) = <<"0", "2">>
            /\ DerBytes(der, sAt) = MinimalBytes(EncodedS)
            /\ ParseInt16(JsSlice(der, sAt + 2, sAt + 4)) = Len(MinimalBytes(EncodedS))
            /\ DerNext(der, sAt) = Len(der)
            /\ ParseInt16(JsSlice(der, 2, 4))
                   = 4 + Len(MinimalBytes(call.r)) + Len(MinimalBytes(EncodedS))
            /\ Len(der) = 2 * (2 + ParseInt16(JsSlice(der, 2, 4)))

\* r = 0x80 takes a zero byte in front, s = 1 is one byte: 30 07 02 02 00 80
\* 02 01 01
C26_Witness ==
    /\ call.op = "encodeDERSignature"
    /\ call.r = <<128>>
    /\ call.s = <<1>>
    /\ ret = Ok(<<"3", "0", "0", "7", "0", "2", "0", "2", "0", "0", "8", "0",
                  "0", "2", "0", "1", "0", "1", "0", "1">>)

\* the names of the wallets of the store, in their order
StoreNames == [i \in 1..Len(CurrentStore.wallets) |-> CurrentStore.wallets[i].name]

\* C29: from an empty store, after any sequence of /create-wallet,
\* /import-wallet, /select-wallet and /delete-wallet, selectedWallet is the
\* name of a wallet of the store whenever the store holds a wallet, and
\* undefined when it holds none; after the selected wallet was deleted the
\* selection is the first wallet that remains.
C29_SelectionInStore ==
    cli.pc = "loop" =>
        /\ LoadStore(cli.file, sessionPassword).ok
        /\ IF CurrentStore.wallets = <<>> THEN CurrentStore.selectedWallet = Undefined
           ELSE \E i \in 1..Len(StoreNames) : StoreNames[i] = CurrentStore.selectedWallet
        /\ \A i, j \in 1..Len(StoreNames) : StoreNames[i] = StoreNames[j] => i = j
        /\ cli.last.command = "/delete-wallet" /\ cli.last.saved =>
              /\ \A i \in 1..Len(StoreNames) : StoreNames[i] # cli.last.name
              /\ CurrentStore.selectedWallet
                     = IF StoreNames = <<>> THEN Undefined ELSE StoreNames[1]

\* the second of three wallets was selected and deleted: the first is
\* selected
C29_Witness ==
    /\ cli.pc = "loop"
    /\ cli.last = [command |-> "/delete-wallet", name |-> Str(<<"c", "_">>),
                   saved |-> TRUE]
    /\ StoreNames = <<Str(<<"B", "-", "2">>), Str(Rep("x", MaxNameLength))>>
    /\ CurrentStore.selectedWallet = Str(<<"B", "-", "2">>)

\* the only wallet was deleted: nothing is selected
C29_LastWalletDeleted ==
    /\ cli.pc = "loop"
    /\ cli.last.command = "/delete-wallet"
    /\ cli.last.saved
    /\ CurrentStore = EmptyStore

\* the transaction that sendTokens showed, in hexadecimal form and signed
\* with the key of the wallet
HexForShown == createTransactionHex(txData.val.inputs, txData.val.outputs, Undefined)

SignedForShown == signTransaction(txHex.val, wallet.privateKey, txData.val.inputs, Arr(utxos))

\* C30: in one /send command rpc.broadcastTransaction is called at most
\* once, only after the recipient and the amount passed their checks,
\* buildTransaction returned a transaction and the answer to the
\* confirmation was yes or y, and only with what signTransaction returned
\* for the transaction that was shown; after any other answer the command
\* has ended without a signature and without a broadcast.
C30_BroadcastOnceAfterYes ==
    /\ Len(cli.broadcasts) <= 1
    /\ cli.broadcasts # <<>> =>
          /\ isValidAddress(args.to).val
          /\ args.to # wallet.address
          /\ AmountAccepted(args.amount)
          /\ txData # JsNull
          /\ txData.ok
          /\ txData = buildTransaction(wallet.address, args.to, parseFloat(args.amount),
                                       utxos, wallet.address)
          /\ cli.confirm # JsNull
          /\ toLowerCase(cli.confirm.v) \in {<<"y", "e", "s">>, <<"y">>}
          /\ txHex = HexForShown
          /\ txHex.ok
          /\ cli.broadcasts = <<SignedForShown.val>>
          /\ signedTxHex = SignedForShown
    /\ cli.confirm # JsNull /\ toLowerCase(cli.confirm.v) \notin {<<"y", "e", "s">>, <<"y">>} =>
          /\ cli.pc = "loop"
          /\ signedTxHex = JsNull
          /\ cli.broadcasts = <<>>

\* a transaction with two inputs was confirmed with Y, signed and handed to
\* rpc.broadcastTransaction
C30_Witness ==
    /\ cli.pc = "broadcastTransaction"
    /\ cli.confirm = Str(<<"Y">>)
    /\ Len(txData.val.inputs) = 2
    /\ Len(cli.broadcasts) = 1
    /\ Len(cli.broadcasts[1]) > Len(txHex.val)

\* a transaction was shown and the answer was no
C30_Cancelled ==
    /\ cli.pc = "loop"
    /\ cli.confirm = Str(<<"n", "o">>)
    /\ txData # JsNull
    /\ txData.ok
    /\ cli.broadcasts = <<>>

=============================================================================
